---- MODULE Spec2Model ----
(***************************************************************************)
(* A model of zfs-rs: the snapshot reconciliation engine (Dataset::comm,   *)
(* find_mrcud, src/src/dataset.rs) and the replication orchestrator        *)
(* (replicate_dataset, src/src/replicate.rs) that drives zfs send | recv.  *)
(***************************************************************************)
EXTENDS Integers, Sequences, FiniteSets, TLC

\* ------------------------------------------------------------------ bounds
\* Inputs of the pure functions: snapshots are all (guid, creation) pairs.
MaxGuid == 2
MaxTime == 2
MaxLen == 2
\* The ZFS world of the orchestrator: guids 1..WorldGuids, two per second.
WorldGuids == 5

\* ------------------------------------------------------------ option type
None == <<>>
Some(x) == <<x>>

\* ------------------------------------------------------------------- Snap
\* struct Snap: name and holds play no part in equality or ordering.
Snap(g, c) == [guid |-> g, creation |-> c]

\* A mutant of snap_eq: the equality #[derive(PartialEq)] would give.
SnapEqDerived(a, b) == a = b

\* impl PartialEq for Snap: guid alone.
snap_eq(a, b) == a.guid = b.guid

\* A mutant of partial_cmp: snapshots of one creation are ordered, the left
\* one first.
PartialCmpTotal(a, b) ==
    IF snap_eq(a, b) THEN Some("Equal")
    ELSE IF a.creation <= b.creation THEN Some("Less")
    ELSE Some("Greater")

\* impl PartialOrd for Snap: Some(Equal) on equal guids, else by creation,
\* None when the creations coincide.
partial_cmp(a, b) ==
    IF snap_eq(a, b) THEN Some("Equal")
    ELSE IF a.creation < b.creation THEN Some("Less")
    ELSE IF a.creation > b.creation THEN Some("Greater")
    ELSE None

\* ------------------------------------------------------------ Dataset::comm
Tagged(side, s) == [side |-> side, snap |-> s]

\* A mutant of Flush: what is left is tagged LEFT, whichever side it is of.
RECURSIVE FlushAsLeft(_, _, _, _)
FlushAsLeft(retval, last_side, snaps, k) ==
    IF k > Len(snaps) THEN retval
    ELSE FlushAsLeft(Append(retval, Tagged("LEFT", snaps[k])), last_side, snaps, k + 1)

\* for remaining in snaps_left { retval.push((last_side, remaining)) }
RECURSIVE Flush(_, _, _, _)
Flush(retval, last_side, snaps, k) ==
    IF k > Len(snaps) THEN retval
    ELSE Flush(Append(retval, Tagged(last_side, snaps[k])), last_side, snaps, k + 1)

\* A mutant of CommEqual: the index of the first BOTH is kept.
CommEqualFirstIndex(i, j, retval, retval2, snap_self) ==
    [i |-> i + 1, j |-> j + 1,
     retval |-> Append(retval, Tagged("BOTH", snap_self)),
     retval2 |-> IF retval2 = None THEN Some(Len(retval)) ELSE retval2]

\* A mutant of CommEqual: BOTH is pushed but only the left iterator advances.
CommEqualKeepsOther(i, j, retval, retval2, snap_self) ==
    [i |-> i + 1, j |-> j,
     retval |-> Append(retval, Tagged("BOTH", snap_self)),
     retval2 |-> Some(Len(retval))]

\* The Some(Equal) arm: remember the output length, push BOTH with the left
\* record, advance both iterators.
CommEqual(i, j, retval, retval2, snap_self) ==
    [i |-> i + 1, j |-> j + 1,
     retval |-> Append(retval, Tagged("BOTH", snap_self)),
     retval2 |-> Some(Len(retval))]

\* The merge loop; i and j are the positions of the two peekable iterators.
\* The result is the pair (retval, retval2), or panicked when two heads are
\* incomparable.
RECURSIVE CommLoop(_, _, _, _, _, _)
CommLoop(self, other, i, j, retval, retval2) ==
    IF i > Len(self)
    THEN [panicked |-> FALSE, vec |-> Flush(retval, "RIGHT", other, j), idx |-> retval2]
    ELSE IF j > Len(other)
    THEN [panicked |-> FALSE, vec |-> Flush(retval, "LEFT", self, i), idx |-> retval2]
    ELSE LET snap_self == self[i]
             snap_other == other[j]
             c == partial_cmp(snap_self, snap_other)
         IN IF c = Some("Less")
            THEN CommLoop(self, other, i + 1, j,
                          Append(retval, Tagged("LEFT", snap_self)), retval2)
            ELSE IF c = Some("Equal")
            THEN LET n == CommEqual(i, j, retval, retval2, snap_self)
                 IN CommLoop(self, other, n.i, n.j, n.retval, n.retval2)
            ELSE IF c = Some("Greater")
            THEN CommLoop(self, other, i, j + 1,
                          Append(retval, Tagged("RIGHT", snap_other)), retval2)
            ELSE [panicked |-> TRUE, vec |-> <<>>, idx |-> None]

comm(self, other) == CommLoop(self, other, 1, 1, <<>>, None)

\* ---------------------------------------------------------------- find_mrcud
\* The scan of the merge after the most recent common index, with its break.
RECURSIVE ScanRemaining(_, _, _, _)
ScanRemaining(remaining, k, source_has_more, destination_has_more) ==
    IF k > Len(remaining)
    THEN [unreachable |-> FALSE, shm |-> source_has_more, dhm |-> destination_has_more]
    ELSE LET side == remaining[k].side
             shm == source_has_more \/ side = "LEFT"
             dhm == destination_has_more \/ side = "RIGHT"
         IN IF side = "BOTH"
            THEN [unreachable |-> TRUE, shm |-> source_has_more, dhm |-> destination_has_more]
            ELSE IF shm /\ dhm
            THEN [unreachable |-> FALSE, shm |-> shm, dhm |-> dhm]
            ELSE ScanRemaining(remaining, k + 1, shm, dhm)

\* A mutant of MrcudKind: a divergence is reported as a source that has more.
MrcudKindNoDivergence(source_has_more, destination_has_more) ==
    IF ~source_has_more /\ ~destination_has_more THEN "UpToDate"
    ELSE IF source_has_more THEN "SourceHasMore"
    ELSE "DestinationHasMore"

\* A mutant of MrcudKind: the two one-sided arms are swapped.
MrcudKindSwapped(source_has_more, destination_has_more) ==
    IF ~source_has_more /\ ~destination_has_more THEN "UpToDate"
    ELSE IF source_has_more /\ ~destination_has_more THEN "DestinationHasMore"
    ELSE IF ~source_has_more /\ destination_has_more THEN "SourceHasMore"
    ELSE "Divergence"

\* A mutant of MrcudKind: a source that has more is reported up to date.
MrcudKindStale(source_has_more, destination_has_more) ==
    IF ~destination_has_more THEN "UpToDate"
    ELSE IF ~source_has_more /\ destination_has_more THEN "DestinationHasMore"
    ELSE "Divergence"

\* match (source_has_more, destination_has_more)
MrcudKind(source_has_more, destination_has_more) ==
    IF ~source_has_more /\ ~destination_has_more THEN "UpToDate"
    ELSE IF source_has_more /\ ~destination_has_more THEN "SourceHasMore"
    ELSE IF ~source_has_more /\ destination_has_more THEN "DestinationHasMore"
    ELSE "Divergence"

\* The value of find_mrcud: kind is one of the five MRCUD variants, or
\* "Panic" (comm panicked) or "Unreachable" (the unreachable! arm ran); snap
\* is the carried snapshot.
find_mrcud(source, destination) ==
    LET r == comm(source, destination)
    IN IF r.panicked THEN [kind |-> "Panic", snap |-> None]
       ELSE IF r.idx = None THEN [kind |-> "NoneInCommon", snap |-> None]
       ELSE LET most_recent_common_idx == r.idx[1]
                most_recent_common_snap == r.vec[most_recent_common_idx + 1].snap
                remaining == SubSeq(r.vec, most_recent_common_idx + 2, Len(r.vec))
                s == ScanRemaining(remaining, 1, FALSE, FALSE)
            IN IF s.unreachable THEN [kind |-> "Unreachable", snap |-> None]
               ELSE [kind |-> MrcudKind(s.shm, s.dhm),
                     snap |-> Some(most_recent_common_snap)]

\* ------------------------------------------------------------------- state
VARIABLES
    pc,                   \* position in replicate_dataset, or in the pure harness
    opts,                 \* ReplicateDatasetOpts
    src_world,            \* the source dataset as it is on the source machine
    dst_world,            \* the destination dataset as it is on the destination machine
    src_snaps,            \* src_ds.snaps
    dst_snaps,            \* dst_ds.snaps
    dst_dataset_existed,  \* the local of that name
    comm_result,          \* the last value returned by Dataset::comm
    mrcud,                \* the last value returned by find_mrcud
    children,             \* the child processes spawned so far, in spawn order
    statuses,             \* the exit statuses collected by wait(), in wait order
    result,               \* what replicate_dataset returned
    events,               \* what replicate_dataset did to its children, in order
    arg,                  \* the argument a function under study is called with:
                          \* in replicate_dataset, the output of the last zfs list
                          \* that get_snaps ran
    ret                   \* what that function returned

vars == <<pc, opts, src_world, dst_world, src_snaps, dst_snaps,
          dst_dataset_existed, comm_result, mrcud, children, statuses, result,
          events, arg, ret>>

\* ------------------------------------------------- the pure-function harness
Snaps == {Snap(g, c) : g \in 1..MaxGuid, c \in 1..MaxTime}

SeqsUpTo(S, n) == UNION {[1..k -> S] : k \in 0..n}

\* Any vectors, sorted or not, with or without repeated guids.
SnapSeqs == SeqsUpTo(Snaps, MaxLen)

DistinctGuids(s) == \A k, l \in 1..Len(s) : s[k].guid = s[l].guid => k = l

StrictlyIncreasing(s) == \A k, l \in 1..Len(s) : k < l => s[k].creation < s[l].creation

\* Vectors as a listing gives them (distinct guids, strictly increasing
\* creations); there are few of them, so they are drawn from a universe one
\* guid and one second larger.
SortedSnapSeqs ==
    {s \in SeqsUpTo({Snap(g, c) : g \in 1..(MaxGuid + 1), c \in 1..(MaxTime + 1)}, MaxLen) :
        DistinctGuids(s) /\ StrictlyIncreasing(s)}

\* A guid is compared for equality and nothing else, so of the vectors that
\* differ by a renaming of guids one is enough: the one whose guids are
\* numbered in the order they first appear.
GuidsInOrderOfAppearance(s) ==
    \A k \in 1..Len(s) :
        \/ s[k].guid = 1
        \/ \E l \in 1..(k - 1) : s[l].guid \in {s[k].guid, s[k].guid - 1}

ReconcileInputs ==
    {in \in SnapSeqs \X SnapSeqs : GuidsInOrderOfAppearance(in[1] \o in[2])}
        \cup (SortedSnapSeqs \X SortedSnapSeqs)

NoOpts == [use_rollback_flag_on_recv |-> FALSE,
           allow_divergent_destination |-> FALSE,
           allow_nonexistent_destination |-> FALSE,
           simple_incremental |-> FALSE,
           take_snap_now |-> None,
           ratelimit |-> None]

NoWorld == [exists |-> FALSE, snaps |-> <<>>]

InitPure ==
    /\ pc = "pure"
    /\ opts = NoOpts
    /\ src_world = NoWorld
    /\ dst_world = NoWorld
    /\ src_snaps = <<>>
    /\ dst_snaps = <<>>
    /\ dst_dataset_existed = FALSE
    /\ comm_result = None
    /\ mrcud = None
    /\ children = <<>>
    /\ statuses = <<>>
    /\ result = None
    /\ events = <<>>
    /\ arg = None
    /\ ret = None

\* Two datasets are given any snapshot vectors (sorted or not) and reconciled:
\* source.comm(destination) and find_mrcud(source, destination).
Reconcile ==
    /\ pc = "pure"
    /\ \E in \in ReconcileInputs :
          /\ src_snaps' = in[1]
          /\ dst_snaps' = in[2]
          /\ comm_result' = Some(comm(in[1], in[2]))
          /\ mrcud' = Some(find_mrcud(in[1], in[2]))
    /\ pc' = "reconciled"
    /\ UNCHANGED <<opts, src_world, dst_world, dst_dataset_existed,
                   children, statuses, result, events, arg, ret>>

NextPure == Reconcile

SpecPure == InitPure /\ [][NextPure]_vars

\* ------------------------------------------------------------ the ZFS world
\* A guid names one snapshot, with one creation second wherever it is listed;
\* two guids share each second, so snapshots taken independently in the same
\* second exist.
creationOf(g) == (g + 1) \div 2

WorldSnap(g) == Snap(g, creationOf(g))

RECURSIVE ListingOf(_)
ListingOf(G) ==
    IF G = {} THEN <<>>
    ELSE LET g == CHOOSE x \in G : \A y \in G : x <= y
         IN <<WorldSnap(g)>> \o ListingOf(G \ {g})

\* What zfs list prints for a dataset: oldest first, one snapshot a second.
WorldListings ==
    {ListingOf(G) : G \in {H \in SUBSET (1..WorldGuids) :
                              \A x, y \in H : x # y => creationOf(x) # creationOf(y)}}

WorldDatasets == {NoWorld} \cup {[exists |-> TRUE, snaps |-> l] : l \in WorldListings}

\* The snapshot zfs snapshot creates: a fresh guid, newer than everything.
NewSnap == Snap(WorldGuids + 1, creationOf(WorldGuids) + 1)

\* What a child that ran to completion hands back (std::process::Output):
\* whether it exited with success, and its stderr, a sequence of pieces of
\* text.
Output(success, stderr) == [spawned |-> TRUE, success |-> success, stderr |-> stderr]

\* cmd.output() failed with an io::Error.
SpawnFailure == [spawned |-> FALSE, success |-> FALSE, stderr |-> <<>>]

ends_with(text, suffix) ==
    /\ Len(suffix) <= Len(text)
    /\ SubSeq(text, Len(text) - Len(suffix) + 1, Len(text)) = suffix

starts_with(text, prefix) ==
    /\ Len(prefix) <= Len(text)
    /\ SubSeq(text, 1, Len(prefix)) = prefix

contains(text, piece) == \E k \in 1..Len(text) : text[k] = piece

StderrNoDataset == <<"cannot open: ", "dataset does not exist", "\n">>
\* The shell complains first, then zfs does not find the dataset.
StderrShNoDataset == <<"sh: ", "warning; ", "cannot open: ", "dataset does not exist", "\n">>
StderrNoZfs == <<"sh: ", "zfs: not found", "\n">>
StderrOther == <<"cannot open: ", "permission denied", "\n">>
StderrInvalidName == <<"cannot create snapshot: ", "invalid character", "\n">>
StderrNameInUse == <<"cannot create snapshot: ", "dataset already exists", "\n">>

\* Failures of the machine rather than of the dataset: no ssh or sh to spawn,
\* no zfs in the PATH of the shell, zfs failing for another reason.
MachineFaults == {SpawnFailure, Output(FALSE, StderrNoZfs), Output(FALSE, StderrOther)}

\* zfs list on a dataset of the world.
ListOutputs(world) ==
    MachineFaults \cup
        (IF world.exists THEN {Output(TRUE, <<>>)}
         ELSE {Output(FALSE, StderrNoDataset), Output(FALSE, StderrShNoDataset)})

\* zfs snapshot on a dataset of the world.
SnapshotOutputs(world) ==
    MachineFaults \cup
        (IF world.exists
         THEN {Output(TRUE, <<>>), Output(FALSE, StderrInvalidName),
               Output(FALSE, StderrNameInUse)}
         ELSE {Output(FALSE, StderrNoDataset)})

\* ------------------------------------------------------- Machine (machine.rs)
Ok == [ok |-> TRUE, err |-> ""]

Err(e) == [ok |-> FALSE, err |-> e]

\* A mutant of get_snaps: the 'sh: ' prefix is tested first.
GetSnapsShFirst(out) ==
    IF ~out.spawned THEN Err("SubprocessError")
    ELSE IF ~out.success
    THEN IF starts_with(out.stderr, <<"sh: ">>) THEN Err("NoZFSRuntime")
         ELSE IF ends_with(out.stderr, <<"dataset does not exist", "\n">>) THEN Err("NoDataset")
         ELSE Err("ZFSCommandExecutionError")
    ELSE Ok

\* Machine::get_snaps, on the output of its zfs list: the error it returns,
\* or Ok (dataset.snaps is then the listing).
get_snaps(out) ==
    IF ~out.spawned THEN Err("SubprocessError")
    ELSE IF ~out.success
    THEN IF ends_with(out.stderr, <<"dataset does not exist", "\n">>) THEN Err("NoDataset")
         ELSE IF starts_with(out.stderr, <<"sh: ">>) THEN Err("NoZFSRuntime")
         ELSE Err("ZFSCommandExecutionError")
    ELSE Ok

\* Machine::create_snap_with_name, on the output of its zfs snapshot and of
\* the zfs list that refreshes the dataset.
create_snap_with_name(out, list_out) ==
    IF ~out.spawned THEN Err("SubprocessError")
    ELSE IF ~out.success
    THEN IF contains(out.stderr, "invalid character") THEN Err("IllegalZFSName")
         ELSE IF contains(out.stderr, "dataset does not exist") THEN Err("NoDataset")
         ELSE IF contains(out.stderr, "dataset already exists") THEN Err("NameAlreadyInUse")
         ELSE Err("ZFSCommandExecutionError")
    ELSE get_snaps(list_out)

\* A mutant of send_from_s_till_newest: simple_incremental is ignored.
SendAlwaysIntermediary(snaps, s, simple_incremental) ==
    [cmd |-> "send",
     flag |-> "I",
     from |-> s.guid,
     to |-> snaps[Len(snaps)].guid]

\* Machine::send_from_s_till_newest: the zfs send it builds.
send_from_s_till_newest(snaps, s, simple_incremental) ==
    [cmd |-> "send",
     flag |-> IF simple_incremental THEN "i" ELSE "I",
     from |-> s.guid,
     to |-> snaps[Len(snaps)].guid]

\* Machine::recv: the zfs recv it builds.
recv(rollback) ==
    [cmd |-> "recv", flag |-> IF rollback THEN "F" ELSE ""]

\* -------------------------------------------- replicate_dataset (replicate.rs)
\* What a run of replicate_dataset ends with: Ok(message), Err(message, with
\* the MachineError that caused it if any), or a panic.
ReturnOk(msg) == Some([kind |-> "Ok", msg |-> msg, cause |-> ""])

ReturnErr(msg, cause) == Some([kind |-> "Err", msg |-> msg, cause |-> cause])

Panic(msg) == Some([kind |-> "Panic", msg |-> msg, cause |-> ""])

\* main builds the options from the command line, where
\* --allow-divergent-destination requires --rollback and --ratelimit is a
\* rate that verify_pv_rate accepts.
ReplicateDatasetOpts ==
    {o \in [use_rollback_flag_on_recv : BOOLEAN,
            allow_divergent_destination : BOOLEAN,
            allow_nonexistent_destination : BOOLEAN,
            simple_incremental : BOOLEAN,
            take_snap_now : {None, Some("snap_name")},
            ratelimit : {None, Some("50M")}] :
        o.allow_divergent_destination => o.use_rollback_flag_on_recv}

\* The state replicate_dataset is called in: both Dataset values come from
\* parse_spec with no snapshots.
Init ==
    /\ pc = "take_snap_now"
    /\ opts \in ReplicateDatasetOpts
    /\ src_world \in WorldDatasets
    /\ dst_world \in WorldDatasets
    /\ src_snaps = <<>>
    /\ dst_snaps = <<>>
    /\ dst_dataset_existed = FALSE
    /\ comm_result = None
    /\ mrcud = None
    /\ children = <<>>
    /\ statuses = <<>>
    /\ result = None
    /\ events = <<>>
    /\ arg = None
    /\ ret = None

Return(r) == /\ result' = r
             /\ pc' = "returned"

\* if let Some(snap_name) = opts.take_snap_now { create_snap_with_name(...)? }
TakeSnapNow ==
    /\ pc = "take_snap_now"
    /\ IF opts.take_snap_now = None
       THEN /\ pc' = "get_snaps_src"
            /\ UNCHANGED <<src_world, src_snaps, result>>
       ELSE \E out \in SnapshotOutputs(src_world) :
            LET created == out.spawned /\ out.success
                world == IF created
                         THEN [src_world EXCEPT !.snaps = Append(@, NewSnap)]
                         ELSE src_world
            IN \E list_out \in ListOutputs(world) :
               LET r == create_snap_with_name(out, list_out)
               IN /\ src_world' = world
                  /\ IF r.ok
                     THEN /\ src_snaps' = world.snaps
                          /\ pc' = "get_snaps_src"
                          /\ UNCHANGED result
                     ELSE /\ src_snaps' = src_snaps
                          /\ Return(ReturnErr("Failed to take snapshot (requested by --take-snap-now).", r.err))
    /\ UNCHANGED <<opts, dst_world, dst_snaps, dst_dataset_existed,
                   comm_result, mrcud, children, statuses, events, arg, ret>>

\* src_machine.get_snaps(src_ds).context(...)?
GetSnapsSource ==
    /\ pc = "get_snaps_src"
    /\ \E out \in ListOutputs(src_world) :
          LET r == get_snaps(out)
          IN /\ arg' = Some(out)
             /\ ret' = Some(r)
             /\ IF r.ok
                THEN /\ src_snaps' = src_world.snaps
                     /\ pc' = "get_snaps_dst"
                     /\ UNCHANGED result
                ELSE /\ src_snaps' = src_snaps
                     /\ Return(ReturnErr("Unable to get snapshots for source", r.err))
    /\ UNCHANGED <<opts, src_world, dst_world, dst_snaps, dst_dataset_existed,
                   comm_result, mrcud, children, statuses, events>>

\* let dst_dataset_existed = match dst_machine.get_snaps(dst_ds) { ... }
GetSnapsDestination ==
    /\ pc = "get_snaps_dst"
    /\ \E out \in ListOutputs(dst_world) :
          LET r == get_snaps(out)
          IN /\ arg' = Some(out)
             /\ ret' = Some(r)
             /\ IF r.ok
                THEN /\ dst_snaps' = dst_world.snaps
                     /\ dst_dataset_existed' = TRUE
                     /\ pc' = "find_mrcud"
                     /\ UNCHANGED result
                ELSE IF r.err = "NoDataset"
                THEN /\ dst_dataset_existed' = FALSE
                     /\ pc' = "find_mrcud"
                     /\ UNCHANGED <<dst_snaps, result>>
                ELSE /\ UNCHANGED <<dst_snaps, dst_dataset_existed>>
                     /\ Return(ReturnErr("Unable to get snapshots for destination", r.err))
    /\ UNCHANGED <<opts, src_world, dst_world, src_snaps,
                   comm_result, mrcud, children, statuses, events>>

\* A mutant of BailEarly: an up-to-date pair is sent anyway.
BailEarlySendsUpToDate(m, o) ==
    IF m.kind = "Panic" THEN Panic("comm: two snapshots which aren't comparable")
    ELSE IF m.kind = "Unreachable" THEN Panic("find_mrcud: unreachable")
    ELSE IF m.kind = "NoneInCommon" THEN ReturnErr("have no snapshots in common", "")
    ELSE IF m.kind = "UpToDate" THEN None
    ELSE IF m.kind = "DestinationHasMore"
    THEN ReturnErr("newer snapshots at the destination; perhaps you meant to send from destination to source", "")
    ELSE IF m.kind = "Divergence" /\ ~o.use_rollback_flag_on_recv
    THEN ReturnErr("diverge; retry with --allow-divergent-destination", "")
    ELSE None

\* A mutant of BailEarly: the check for the reversed direction comes after
\* the pipeline has been built, so it is skipped here.
BailEarlyLate(m, o) ==
    IF m.kind = "Panic" THEN Panic("comm: two snapshots which aren't comparable")
    ELSE IF m.kind = "Unreachable" THEN Panic("find_mrcud: unreachable")
    ELSE IF m.kind = "NoneInCommon" THEN None
    ELSE IF m.kind = "UpToDate" THEN ReturnOk("Nothing to do: already up-to-date")
    ELSE IF m.kind = "DestinationHasMore"
    THEN ReturnErr("newer snapshots at the destination; perhaps you meant to send from destination to source", "")
    ELSE IF m.kind = "Divergence" /\ ~o.use_rollback_flag_on_recv
    THEN ReturnErr("diverge; retry with --allow-divergent-destination", "")
    ELSE None

\* match mrcud { ... }: the reasons to bail early; None is to go on.
BailEarly(m, o) ==
    IF m.kind = "Panic" THEN Panic("comm: two snapshots which aren't comparable")
    ELSE IF m.kind = "Unreachable" THEN Panic("find_mrcud: unreachable")
    ELSE IF m.kind = "NoneInCommon" THEN ReturnErr("have no snapshots in common", "")
    ELSE IF m.kind = "UpToDate" THEN ReturnOk("Nothing to do: already up-to-date")
    ELSE IF m.kind = "DestinationHasMore"
    THEN ReturnErr("newer snapshots at the destination; perhaps you meant to send from destination to source", "")
    ELSE IF m.kind = "Divergence" /\ ~o.use_rollback_flag_on_recv
    THEN ReturnErr("diverge; retry with --allow-divergent-destination", "")
    ELSE None

\* From the test of dst_dataset_existed to the choice of the most recent
\* common snapshot: no process is run in between.
FindMrcud ==
    /\ pc = "find_mrcud"
    /\ IF ~dst_dataset_existed /\ ~opts.allow_nonexistent_destination
       THEN /\ Return(ReturnErr("destination does not exist and full send (--init-empty) not requested", ""))
            /\ UNCHANGED <<comm_result, mrcud>>
       ELSE LET m == find_mrcud(src_snaps, dst_snaps)
                bail == BailEarly(m, opts)
            IN /\ comm_result' = Some(comm(src_snaps, dst_snaps))
               /\ mrcud' = Some(m)
               /\ IF bail # None
                  THEN Return(bail)
                  ELSE IF m.kind \notin {"Divergence", "SourceHasMore"}
                  THEN Return(Panic("replicate_dataset: unreachable"))
                  ELSE /\ pc' = "spawn_send"
                       /\ UNCHANGED result
    /\ UNCHANGED <<opts, src_world, dst_world, src_snaps, dst_snaps,
                   dst_dataset_existed, children, statuses, events, arg, ret>>

most_recent_common_snap == mrcud[1].snap[1]

\* send_from_s_till_newest(...) and source_send_cmd.spawn().context(...)?
SpawnSend ==
    /\ pc = "spawn_send"
    /\ IF snap_eq(src_snaps[Len(src_snaps)], most_recent_common_snap)
       THEN /\ Return(Panic("send_from_s_till_newest: assert_ne"))
            /\ UNCHANGED <<children, events>>
       ELSE \E spawned \in BOOLEAN :
            IF spawned
            THEN /\ children' = Append(children,
                        send_from_s_till_newest(src_snaps, most_recent_common_snap,
                                                opts.simple_incremental))
                 /\ events' = Append(events, "spawn send")
                 /\ pc' = "spawn_recv"
                 /\ UNCHANGED result
            ELSE /\ Return(ReturnErr("Failed to spawn source-side send process.", ""))
                 /\ UNCHANGED <<children, events>>
    /\ UNCHANGED <<opts, src_world, dst_world, src_snaps, dst_snaps,
                   dst_dataset_existed, comm_result, mrcud, statuses, arg, ret>>

\* recv(...), its stdin wired to the sender's stdout, and
\* destination_recv_cmd.spawn().context(...)?
SpawnRecv ==
    /\ pc = "spawn_recv"
    /\ \E spawned \in BOOLEAN :
          IF spawned
          THEN /\ children' = Append(children, recv(opts.use_rollback_flag_on_recv))
               /\ events' = events \o <<"recv stdin = send stdout", "spawn recv">>
               /\ pc' = "progressbar"
               /\ UNCHANGED result
          ELSE /\ Return(ReturnErr("Failed to spawn destination-side recv process.", ""))
               /\ events' = Append(events, "recv stdin = send stdout")
               /\ UNCHANGED children
    /\ UNCHANGED <<opts, src_world, dst_world, src_snaps, dst_snaps,
                   dst_dataset_existed, comm_result, mrcud, statuses, arg, ret>>

\* The sender's stderr as the progress bar of replicate.rs takes it: the two
\* header lines and progress lines it parses, a stream it cannot read (an
\* io::Error from read_line), or one that lacks the size line (the unwrap of
\* its second field panics).
SendStderrs == {"headers and progress", "io error", "no size line"}

do_progressbar_from_zfs_send_stderr(stream) ==
    IF stream = "io error"
    THEN ReturnErr("There was a problem with drawing the progress bar.", "")
    ELSE IF stream = "no size line"
    THEN Panic("do_progressbar_from_zfs_send_stderr: unwrap")
    ELSE None

\* do_progressbar_from_zfs_send_stderr(stderr).context(...)?
ProgressBar ==
    /\ pc = "progressbar"
    /\ \E stream \in SendStderrs :
          LET r == do_progressbar_from_zfs_send_stderr(stream)
          IN IF r = None
             THEN /\ pc' = "wait"
                  /\ events' = Append(events, "send stderr at EOF")
                  /\ UNCHANGED result
             ELSE /\ Return(r)
                  /\ UNCHANGED events
    /\ UNCHANGED <<opts, src_world, dst_world, src_snaps, dst_snaps,
                   dst_dataset_existed, comm_result, mrcud, children, statuses,
                   arg, ret>>

\* The exit statuses a child can end with: success and a failure.
ExitStatuses == {0, 1}

\* What replicate_dataset returns once both children have been waited for:
\* a failed child is reported on stderr only.
AfterWait(source_send_finished, destination_recv_finished) ==
    ReturnOk("Successfully synchronized")

\* source_send_process.wait(), destination_recv_process.wait(), the two
\* eprintln! and the final Ok.
WaitChildren ==
    /\ pc = "wait"
    /\ \E source_send_finished \in ExitStatuses, destination_recv_finished \in ExitStatuses :
          /\ statuses' = <<source_send_finished, destination_recv_finished>>
          /\ Return(AfterWait(source_send_finished, destination_recv_finished))
    /\ events' = events \o <<"wait send", "wait recv">>
    /\ UNCHANGED <<opts, src_world, dst_world, src_snaps, dst_snaps,
                   dst_dataset_existed, comm_result, mrcud, children, arg, ret>>

Next ==
    \/ TakeSnapNow
    \/ GetSnapsSource
    \/ GetSnapsDestination
    \/ FindMrcud
    \/ SpawnSend
    \/ SpawnRecv
    \/ ProgressBar
    \/ WaitChildren

Spec == Init /\ [][Next]_vars

\* --------------------------------------------- vocabulary of the properties
Reconciled == pc = "reconciled"

CommReturned == comm_result # None /\ ~comm_result[1].panicked

CommVec == comm_result[1].vec

Mrcud == mrcud[1]

BothPositions == {k \in 1..Len(CommVec) : CommVec[k].side = "BOTH"}

LastBoth == CHOOSE k \in BothPositions : \A l \in BothPositions : l <= k

TailHas(side) == \E k \in (LastBoth + 1)..Len(CommVec) : CommVec[k].side = side

GuidsOf(s) == {s[k].guid : k \in 1..Len(s)}

SortedInputs(A, B) ==
    /\ DistinctGuids(A) /\ StrictlyIncreasing(A)
    /\ DistinctGuids(B) /\ StrictlyIncreasing(B)

\* A guid has the same creation wherever it is listed.
SameCreationPerGuid(A, B) ==
    \A k \in 1..Len(A), l \in 1..Len(B) :
        A[k].guid = B[l].guid => A[k].creation = B[l].creation

RECURSIVE SelectSides(_, _)
SelectSides(vec, sides) ==
    IF vec = <<>> THEN <<>>
    ELSE IF Head(vec).side \in sides
         THEN <<Head(vec).snap>> \o SelectSides(Tail(vec), sides)
         ELSE SelectSides(Tail(vec), sides)

GuidSeq(s) == [k \in 1..Len(s) |-> s[k].guid]

\* C1: wherever comm returns, find_mrcud is NoneInCommon iff the merge has no
\* BOTH; otherwise the merge after its last BOTH decides: neither LEFT nor
\* RIGHT is UpToDate, LEFT only SourceHasMore, RIGHT only DestinationHasMore,
\* both Divergence; and the unreachable! arm never runs.
C1_MrcudReadsTheTail ==
    (Reconciled /\ CommReturned) =>
        /\ Mrcud.kind # "Unreachable"
        /\ Mrcud.kind # "Panic"
        /\ (Mrcud.kind = "NoneInCommon") <=> (BothPositions = {})
        /\ BothPositions # {} =>
              /\ (Mrcud.kind = "UpToDate") <=> (~TailHas("LEFT") /\ ~TailHas("RIGHT"))
              /\ (Mrcud.kind = "SourceHasMore") <=> (TailHas("LEFT") /\ ~TailHas("RIGHT"))
              /\ (Mrcud.kind = "DestinationHasMore") <=> (~TailHas("LEFT") /\ TailHas("RIGHT"))
              /\ (Mrcud.kind = "Divergence") <=> (TailHas("LEFT") /\ TailHas("RIGHT"))
              /\ ~TailHas("BOTH")

C1_Witness ==
    /\ Reconciled /\ CommReturned
    /\ SortedInputs(src_snaps, dst_snaps)
    /\ Mrcud.kind = "Divergence"
    /\ LastBoth + 2 <= Len(CommVec)

\* The shape C2 promises of a merge that has returned.
MergeIsExact(A, B) ==
    /\ CommReturned
    /\ Len(CommVec) = Len(A) + Len(B) - Cardinality(GuidsOf(A) \cap GuidsOf(B))
    /\ SelectSides(CommVec, {"LEFT", "BOTH"}) = A
    /\ GuidSeq(SelectSides(CommVec, {"RIGHT", "BOTH"})) = GuidSeq(B)

\* C2 as claimed: for sequences each with distinct guids and strictly
\* increasing creations, comm returns a merge of length |A| + |B| - |A cap B|
\* that keeps A's order on LEFT/BOTH and B's order on RIGHT/BOTH.
C2_Claimed ==
    (Reconciled /\ SortedInputs(src_snaps, dst_snaps)) =>
        MergeIsExact(src_snaps, dst_snaps)

\* C2 as amended: the same, for the pairs on which comm returns and in which
\* a guid listed on both sides has the same creation on both; the merge is
\* then also strictly increasing by creation.
C2_MergeLength ==
    (/\ Reconciled /\ CommReturned
     /\ SortedInputs(src_snaps, dst_snaps)
     /\ SameCreationPerGuid(src_snaps, dst_snaps)) =>
        /\ MergeIsExact(src_snaps, dst_snaps)
        /\ StrictlyIncreasing(SelectSides(CommVec, {"LEFT", "BOTH", "RIGHT"}))

C2_Witness ==
    /\ Reconciled /\ CommReturned
    /\ SortedInputs(src_snaps, dst_snaps)
    /\ SameCreationPerGuid(src_snaps, dst_snaps)
    /\ Len(src_snaps) = MaxLen /\ Len(dst_snaps) = MaxLen
    /\ Cardinality(GuidsOf(src_snaps) \cap GuidsOf(dst_snaps)) = 1
    /\ Len(CommVec) = Len(src_snaps) + Len(dst_snaps) - 1

\* C3: if find_mrcud returns UpToDate(s) then s is, by guid, the last
\* snapshot of the source and the last snapshot of the destination.
C3_UpToDateIsLastOfBoth ==
    (Reconciled /\ Mrcud.kind = "UpToDate") =>
        /\ src_snaps # <<>> /\ dst_snaps # <<>>
        /\ Mrcud.snap[1].guid = src_snaps[Len(src_snaps)].guid
        /\ Mrcud.snap[1].guid = dst_snaps[Len(dst_snaps)].guid

C3_Witness ==
    /\ Reconciled /\ Mrcud.kind = "UpToDate"
    /\ Len(src_snaps) = MaxLen /\ Len(dst_snaps) < MaxLen
    /\ Mrcud.snap[1].guid = src_snaps[Len(src_snaps)].guid

\* ------------------------------------- vocabulary of the orchestrator's claims
Returned == pc = "returned"

Result == result[1]

Classified == mrcud # None /\ pc # "reconciled"

SendSpawned == \E k \in 1..Len(children) : children[k].cmd = "send"

RecvSpawned == \E k \in 1..Len(children) : children[k].cmd = "recv"

\* zfs send with neither -i nor -I: a full send.
FullSendSpawned ==
    \E k \in 1..Len(children) : children[k].cmd = "send" /\ children[k].flag = ""

IncrementalSendFrom(s) ==
    /\ children # <<>>
    /\ children[1].cmd = "send"
    /\ children[1].flag \in {"i", "I"}
    /\ children[1].from = s.guid

\* The snapshot asked for by take_snap_now exists on the source.
SnapshotCreated == \E k \in 1..Len(src_world.snaps) : src_world.snaps[k] = NewSnap

\* The source's snapshots when replicate_dataset was called.
SourceAtCall ==
    IF SnapshotCreated
    THEN SubSeq(src_world.snaps, 1, Len(src_world.snaps) - 1)
    ELSE src_world.snaps

\* How source and destination stood to each other when replicate_dataset
\* was called.
MrcudAtCall == find_mrcud(SourceAtCall, dst_world.snaps)

BothExist == src_world.exists /\ dst_world.exists

\* The run ended on a failure of a machine or of a child process, not on a
\* decision of the orchestrator.
MachineFailed ==
    /\ Returned
    /\ \/ Result.cause # ""
       \/ Result.msg \in {"Failed to spawn source-side send process.",
                          "Failed to spawn destination-side recv process.",
                          "There was a problem with drawing the progress bar.",
                          "do_progressbar_from_zfs_send_stderr: unwrap"}

MsgNoDestination == "destination does not exist and full send (--init-empty) not requested"
MsgNoneInCommon == "have no snapshots in common"
MsgUpToDate == "Nothing to do: already up-to-date"
MsgReversed == "newer snapshots at the destination; perhaps you meant to send from destination to source"
MsgDivergence == "diverge; retry with --allow-divergent-destination"

\* The bails of C8: a listing that failed, a destination that is missing,
\* and the three fatal classifications.
Bailed ==
    /\ Returned
    /\ Result.kind = "Err"
    /\ Result.msg \in {"Unable to get snapshots for source",
                       "Unable to get snapshots for destination",
                       MsgNoDestination, MsgNoneInCommon, MsgReversed, MsgDivergence}

\* C4 as claimed: once the children have been waited for, a nonzero exit
\* status of the sender or of the receiver makes replicate_dataset return an
\* error, and 'Successfully synchronized' is returned only when every child
\* exited with status zero.
C4_Claimed ==
    (Returned /\ statuses # <<>>) =>
        /\ (\E k \in 1..Len(statuses) : statuses[k] # 0) => Result.kind = "Err"
        /\ Result = ReturnOk("Successfully synchronized")[1] =>
              \A k \in 1..Len(statuses) : statuses[k] = 0

\* C5 as claimed: when the classification is Divergence(s), without
\* allow_divergent_destination the run ends in an error with no child
\* spawned, and with it the run goes on to the incremental send from s,
\* whatever the other options.
C5_Claimed ==
    (Classified /\ Mrcud.kind = "Divergence") =>
        IF ~opts.allow_divergent_destination
        THEN /\ children = <<>>
             /\ Returned => Result.kind = "Err"
        ELSE /\ Returned => Result.msg # MsgDivergence
             /\ (Returned /\ ~MachineFailed) => IncrementalSendFrom(Mrcud.snap[1])

\* C6 as claimed: when the destination has more than the source
\* (DestinationHasMore(s)): without take_snap_now the run fails with the hint
\* that the direction is reversed; with take_snap_now it fails unless
\* allow_divergent_destination is set, and then it takes the snapshot and
\* runs the incremental send from s.
C6_Claimed ==
    (Returned /\ BothExist /\ MrcudAtCall.kind = "DestinationHasMore") =>
        IF opts.take_snap_now = None
        THEN /\ Result.kind = "Err"
             /\ ~MachineFailed => Result.msg = MsgReversed
        ELSE IF ~opts.allow_divergent_destination
        THEN ~MachineFailed => Result.kind = "Err"
        ELSE ~MachineFailed =>
                /\ SnapshotCreated
                /\ IncrementalSendFrom(MrcudAtCall.snap[1])

\* C7: when source and destination are up to date at s (UpToDate(s)):
\* without take_snap_now no child is ever spawned and the run returns the
\* success message 'Nothing to do'; with take_snap_now the run never returns
\* that message, a sender is spawned only once the snapshot exists and is the
\* incremental send from s to the new snapshot, and unless a machine or a
\* child fails the sender is spawned.
C7_UpToDate ==
    (BothExist /\ MrcudAtCall.kind = "UpToDate") =>
        IF opts.take_snap_now = None
        THEN /\ children = <<>>
             /\ (Returned /\ ~MachineFailed) => Result = ReturnOk(MsgUpToDate)[1]
        ELSE /\ Returned => Result.msg # MsgUpToDate
             /\ children # <<>> =>
                   /\ SnapshotCreated
                   /\ IncrementalSendFrom(MrcudAtCall.snap[1])
                   /\ children[1].to = NewSnap.guid
             /\ (Returned /\ ~MachineFailed) => children # <<>>

C7_Witness ==
    /\ BothExist /\ MrcudAtCall.kind = "UpToDate"
    /\ opts.take_snap_now # None
    /\ Returned /\ Result = ReturnOk("Successfully synchronized")[1]
    /\ IncrementalSendFrom(MrcudAtCall.snap[1])
    /\ Len(SourceAtCall) > 1

\* C8: a run that ends in a bail (a listing that failed, a missing
\* destination without the init flag, NoneInCommon, DestinationHasMore,
\* Divergence without permission) has spawned no zfs send and no zfs recv,
\* and NoneInCommon ends in an error whatever the options.
C8_BailBeforeData ==
    /\ Bailed => (children = <<>> /\ ~SendSpawned /\ ~RecvSpawned)
    /\ (Classified /\ Mrcud.kind = "NoneInCommon") =>
          /\ children = <<>>
          /\ Returned /\ Result = ReturnErr(MsgNoneInCommon, "")[1]

C8_Witness ==
    /\ Bailed /\ Result.msg = MsgNoneInCommon
    /\ opts.use_rollback_flag_on_recv /\ opts.allow_divergent_destination
    /\ opts.allow_nonexistent_destination /\ opts.take_snap_now # None
    /\ src_snaps # <<>> /\ dst_snaps # <<>>

\* C9 as claimed: when the destination listing reports NoDataset, without
\* the init option the run fails with the directive to pass it; with it the
\* full send of the source's oldest snapshot has run and the destination has
\* been listed again before the classification, which therefore sees that
\* snapshot on the destination.
C9_Claimed ==
    /\ (pc \notin {"take_snap_now", "get_snaps_src", "get_snaps_dst", "find_mrcud"}
        /\ ~dst_dataset_existed /\ ~opts.allow_nonexistent_destination)
          => (Returned /\ (Result.msg = MsgNoDestination \/ MachineFailed))
    /\ (Classified /\ ~dst_dataset_existed /\ src_snaps # <<>>) =>
          /\ FullSendSpawned
          /\ \E k \in 1..Len(dst_snaps) : snap_eq(dst_snaps[k], src_snaps[1])

\* C10 as claimed: the snapshot of take_snap_now exists on the source only
\* once both listings and the bail-early classification have passed, and a
\* run that bails has created none.
C10_Claimed ==
    /\ (SnapshotCreated /\ ~MachineFailed) =>
          (Classified /\ BailEarly(Mrcud, opts) = None)
    /\ Bailed => ~SnapshotCreated

\* C11: whenever the orchestrator reaches the incremental send, the base is
\* the most recent common snapshot of the classification and is not the
\* source's newest snapshot; the sender it spawns goes from that base to the
\* source's newest snapshot with -i iff simple_incremental and -I otherwise;
\* the receiver gets -F iff use_rollback_flag_on_recv; no run ends in the
\* assert_ne! of send_from_s_till_newest or the unreachable!() of the choice
\* of the most recent common snapshot.
C11_IncrementalSend ==
    /\ pc = "spawn_send" =>
          /\ Mrcud.kind \in {"Divergence", "SourceHasMore"}
          /\ ~snap_eq(src_snaps[Len(src_snaps)], most_recent_common_snap)
    /\ children # <<>> =>
          /\ children[1].cmd = "send"
          /\ children[1].from = Mrcud.snap[1].guid
          /\ children[1].to = src_snaps[Len(src_snaps)].guid
          /\ children[1].from # children[1].to
          /\ children[1].flag = "i" <=> opts.simple_incremental
          /\ children[1].flag = "I" <=> ~opts.simple_incremental
    /\ Len(children) > 1 =>
          /\ children[2].cmd = "recv"
          /\ children[2].flag = "F" <=> opts.use_rollback_flag_on_recv
          /\ children[2].flag = "" <=> ~opts.use_rollback_flag_on_recv
    /\ Returned => Result.msg \notin {"send_from_s_till_newest: assert_ne",
                                     "replicate_dataset: unreachable"}

C11_Witness ==
    /\ Len(children) = 2
    /\ opts.simple_incremental /\ opts.use_rollback_flag_on_recv
    /\ Mrcud.kind = "Divergence"
    /\ Len(src_snaps) > 2
    /\ children[1].from # src_snaps[1].guid

\* Where an event stands in the run: 0 when it has not happened.
At(e) == IF \E k \in 1..Len(events) : events[k] = e
         THEN CHOOSE k \in 1..Len(events) : events[k] = e
         ELSE 0

Before(e, f) == At(f) > 0 => (0 < At(e) /\ At(e) < At(f))

Waits == {"wait send", "wait recv", "wait pv"}

\* C12 as claimed: in every pipeline run the sender is spawned first; each
\* next stage (the pv rate-limiter when ratelimit is set, then the receiver)
\* has its stdin wired to the stage before it and only then is spawned; every
\* child is spawned and the sender's stderr has been read to EOF before any
\* wait; the waits come sender first, receiver second, rate-limiter last.
C12_Claimed ==
    /\ events # <<>> => events[1] = "spawn send"
    /\ IF opts.ratelimit = None
       THEN /\ Before("recv stdin = send stdout", "spawn recv")
            /\ At("spawn pv") = 0
       ELSE /\ Before("pv stdin = send stdout", "spawn pv")
            /\ Before("spawn pv", "recv stdin = pv stdout")
            /\ Before("recv stdin = pv stdout", "spawn recv")
    /\ \A w \in Waits :
          /\ Before("spawn send", w)
          /\ Before("spawn recv", w)
          /\ opts.ratelimit # None => Before("spawn pv", w)
          /\ Before("send stderr at EOF", w)
    /\ Before("wait send", "wait recv")
    /\ opts.ratelimit # None => Before("wait recv", "wait pv")
    /\ opts.ratelimit = None => At("wait pv") = 0
    /\ Returned /\ Result = ReturnOk("Successfully synchronized")[1] =>
          /\ At("wait recv") > 0
          /\ opts.ratelimit # None => At("wait pv") > 0

\* ------------------------------------------------ addresses (dataset.rs)
\* A string is the sequence of its characters; indices are those of Rust,
\* from 0, and Slice(s, a, b) is &s[a..b].
MaxStr == 6

MaxOther == 6

\* 't' stands for the ASCII alphanumerics, '.' for every character that may
\* stand in a host name but not in a dataset name.
Chars == {"t", "/", ":", "."}

Strings == UNION {[1..n -> Chars] : n \in 0..MaxStr}

Slice(s, a, b) == SubSeq(s, a + 1, b)

StartsAt(s, pat, i) ==
    /\ i + Len(pat) <= Len(s)
    /\ \A k \in 1..Len(pat) : s[i + k] = pat[k]

\* str::find: the index of the first match.
find(s, pat) ==
    IF \E i \in 0..Len(s) : StartsAt(s, pat, i)
    THEN Some(CHOOSE i \in 0..Len(s) :
                 StartsAt(s, pat, i) /\ \A j \in 0..(i - 1) : ~StartsAt(s, pat, j))
    ELSE None

\* value.replacen("//", "/", 1)
replacen_doubleslash(value) ==
    LET d == find(value, <<"/", "/">>)
    IN IF d = None THEN value
       ELSE Slice(value, 0, d[1]) \o <<"/">> \o Slice(value, d[1] + 2, Len(value))

is_ascii_alphanumeric(c) == c = "t"

ParseErr(e) == [ok |-> FALSE, err |-> e]

\* A mutant of Dataset::from_str: empty components are not looked for.
FromStrNoEmptyCheck(value) ==
    IF \E k \in 1..Len(value) :
          ~(is_ascii_alphanumeric(value[k]) \/ value[k] \in {"-", "_", "/"})
    THEN ParseErr("IllegalCharacters")
    ELSE IF value[1] = "/" \/ value[Len(value)] = "/"
    THEN ParseErr("IllegalSlashes")
    ELSE LET doubleslash == find(value, <<"/", "/">>)
             fullname == replacen_doubleslash(value)
             slash == find(fullname, <<"/">>)
         IN [ok |-> TRUE, err |-> "",
             fullname |-> fullname,
             pool_idx |-> IF slash = None THEN Len(fullname) ELSE slash[1],
             relative_idx |-> doubleslash]

\* A mutant of Dataset::from_str: the slashes at the ends are looked for
\* before the illegal characters.
FromStrSlashesFirst(value) ==
    IF value[1] = "/" \/ value[Len(value)] = "/"
    THEN ParseErr("IllegalSlashes")
    ELSE IF \E k \in 1..Len(value) :
               ~(is_ascii_alphanumeric(value[k]) \/ value[k] \in {"-", "_", "/"})
    THEN ParseErr("IllegalCharacters")
    ELSE LET doubleslash == find(value, <<"/", "/">>)
             fullname == replacen_doubleslash(value)
             slash == find(fullname, <<"/">>)
         IN IF find(fullname, <<"/", "/">>) # None
            THEN ParseErr("EmptyComponent")
            ELSE [ok |-> TRUE, err |-> "",
                  fullname |-> fullname,
                  pool_idx |-> IF slash = None THEN Len(fullname) ELSE slash[1],
                  relative_idx |-> doubleslash]

\* Dataset::from_str, called with a string that is not empty.
from_str(value) ==
    IF \E k \in 1..Len(value) :
          ~(is_ascii_alphanumeric(value[k]) \/ value[k] \in {"-", "_", "/"})
    THEN ParseErr("IllegalCharacters")
    ELSE IF value[1] = "/" \/ value[Len(value)] = "/"
    THEN ParseErr("IllegalSlashes")
    ELSE LET doubleslash == find(value, <<"/", "/">>)
             fullname == replacen_doubleslash(value)
             slash == find(fullname, <<"/">>)
         IN IF find(fullname, <<"/", "/">>) # None
            THEN ParseErr("EmptyComponent")
            ELSE [ok |-> TRUE, err |-> "",
                  fullname |-> fullname,
                  pool_idx |-> IF slash = None THEN Len(fullname) ELSE slash[1],
                  relative_idx |-> doubleslash]

\* Machine::from_str
machine_from_str(s) ==
    IF Len(s) = 0 THEN [kind |-> "Local", host |-> <<>>]
    ELSE [kind |-> "Remote", host |-> s]

\* A mutant of parse_spec: the colon is not compared with the slash.
ParseSpecNoColonCheck(value) ==
    LET first_colon == find(value, <<":">>)
        machine_spec == IF first_colon = None THEN Slice(value, 0, 0)
                        ELSE Slice(value, 0, first_colon[1])
        dataset_spec == IF first_colon = None THEN value
                        ELSE Slice(value, first_colon[1] + 1, Len(value))
    IN IF Len(dataset_spec) = 0 THEN ParseErr("ZeroLengthAfterColon")
       ELSE LET d == from_str(dataset_spec)
            IN IF d.ok
               THEN [ok |-> TRUE, err |-> "",
                     machine |-> machine_from_str(machine_spec), dataset |-> d]
               ELSE d

parse_spec(value) ==
    LET first_colon == find(value, <<":">>)
        first_slash == find(value, <<"/">>)
        machine_spec == IF first_colon = None THEN Slice(value, 0, 0)
                        ELSE Slice(value, 0, first_colon[1])
        dataset_spec == IF first_colon = None THEN value
                        ELSE Slice(value, first_colon[1] + 1, Len(value))
    IN IF first_colon # None /\ first_slash # None /\ first_colon[1] > first_slash[1]
       THEN ParseErr("ColonAfterSlash")
       ELSE IF Len(dataset_spec) = 0 THEN ParseErr("ZeroLengthAfterColon")
       ELSE LET d == from_str(dataset_spec)
            IN IF d.ok
               THEN [ok |-> TRUE, err |-> "",
                     machine |-> machine_from_str(machine_spec), dataset |-> d]
               ELSE d

fullname(d) == d.fullname

pool(d) == Slice(d.fullname, 0, d.pool_idx)

\* A mutant of relative: the slice starts on the separator.
RelativeFromSeparator(d) ==
    IF d.relative_idx # None
    THEN Slice(d.fullname, d.relative_idx[1], Len(d.fullname))
    ELSE <<>>

relative(d) ==
    IF d.relative_idx # None
    THEN Slice(d.fullname, d.relative_idx[1] + 1, Len(d.fullname))
    ELSE <<>>

\* A mutant of append_relative: the separator is not pushed.
AppendRelativeNoSeparator(self, other) ==
    IF relative(other) # <<>>
    THEN [self EXCEPT !.fullname = self.fullname \o relative(other)]
    ELSE self

\* Dataset::append_relative: self after the call.
append_relative(self, other) ==
    IF relative(other) # <<>>
    THEN [self EXCEPT !.fullname = (self.fullname \o <<"/">>) \o relative(other)]
    ELSE self

\* -------------------------------------------------- the address harness
\* The variables of replicate_dataset, which the functions under study
\* do not touch.
orchestrator_vars == <<opts, src_world, dst_world, src_snaps, dst_snaps,
                       dst_dataset_existed, comm_result, mrcud, children,
                       statuses, result, events>>

OrchestratorIdle ==
    /\ opts = NoOpts
    /\ src_world = NoWorld
    /\ dst_world = NoWorld
    /\ src_snaps = <<>>
    /\ dst_snaps = <<>>
    /\ dst_dataset_existed = FALSE
    /\ comm_result = None
    /\ mrcud = None
    /\ children = <<>>
    /\ statuses = <<>>
    /\ result = None
    /\ events = <<>>

\* The datasets a second address of at most MaxOther characters parses to.
OtherDatasets ==
    {parse_spec(v).dataset :
        v \in {w \in Strings : Len(w) <= MaxOther /\ parse_spec(w).ok}}

InitParse ==
    /\ pc = "parse_spec"
    /\ arg \in Strings
    /\ ret = None
    /\ OrchestratorIdle

\* parse_spec(arg)
ParseSpec ==
    /\ pc = "parse_spec"
    /\ ret' = Some(parse_spec(arg))
    /\ pc' = "parsed"
    /\ UNCHANGED <<arg, orchestrator_vars>>

\* dst.append_relative(src) on the dataset parsed from arg, as
\* replicate_dataset does first of all.
AppendRelative ==
    /\ pc = "parsed"
    /\ ret[1].ok
    /\ \E other \in OtherDatasets :
          ret' = Some([ok |-> TRUE, err |-> "",
                       machine |-> ret[1].machine,
                       dataset |-> append_relative(ret[1].dataset, other),
                       other |-> other])
    /\ pc' = "appended"
    /\ UNCHANGED <<arg, orchestrator_vars>>

NextParse == ParseSpec \/ AppendRelative

SpecParse == InitParse /\ [][NextParse]_vars

\* ------------------------------------- vocabulary of the address claims
Parsed == pc = "parsed"

ParsedOk == pc = "parsed" /\ ret[1].ok

Appended == pc = "appended"

Positions(str, c) == {k \in 1..Len(str) : str[k] = c}

HasDoubleSlash(str) == \E k \in 1..(Len(str) - 1) : str[k] = "/" /\ str[k + 1] = "/"

\* Only name characters and '/', no '/' at either end, no '//'.
WellFormedName(f) ==
    /\ Len(f) > 0
    /\ \A k \in 1..Len(f) : f[k] \in {"t", "-", "_", "/"}
    /\ f[1] # "/"
    /\ f[Len(f)] # "/"
    /\ ~HasDoubleSlash(f)

\* The text before the first '/', or all of it.
FirstComponent(f) ==
    IF Positions(f, "/") = {} THEN f
    ELSE LET k == CHOOSE i \in Positions(f, "/") : \A j \in Positions(f, "/") : i <= j
         IN SubSeq(f, 1, k - 1)

FirstColon(str) == CHOOSE i \in Positions(str, ":") : \A j \in Positions(str, ":") : i <= j

\* The address without its host and colon.
DatasetPart(str) ==
    IF Positions(str, ":") = {} THEN str
    ELSE SubSeq(str, FirstColon(str) + 1, Len(str))

HostPart(str) ==
    IF Positions(str, ":") = {} THEN <<>>
    ELSE SubSeq(str, 1, FirstColon(str) - 1)

\* The text after the first '//'.
AfterDoubleSlash(str) ==
    LET k == CHOOSE i \in 1..(Len(str) - 1) :
                 /\ str[i] = "/" /\ str[i + 1] = "/"
                 /\ \A j \in 1..(i - 1) : ~(str[j] = "/" /\ str[j + 1] = "/")
    IN SubSeq(str, k + 2, Len(str))

\* C13: for every input on which parse_spec succeeds, the fullname consists
\* only of ASCII alphanumerics, '-', '_' and '/', does not begin or end with
\* '/', and contains no '//'.
C13_FullnameWellFormed ==
    ParsedOk => WellFormedName(fullname(ret[1].dataset))

C13_Witness ==
    /\ ParsedOk
    /\ HasDoubleSlash(arg)
    /\ Positions(arg, ":") # {}
    /\ Len(fullname(ret[1].dataset)) + 2 < Len(arg)

\* An input with more than one colon, or with a colon after a '/'.
ColonMisplaced(str) ==
    \/ Cardinality(Positions(str, ":")) > 1
    \/ \E c \in Positions(str, ":") : \E k \in Positions(str, "/") : k < c

\* C14 as claimed: parse_spec returns ColonAfterSlash for every input that
\* contains more than one colon or a colon after a '/'.
C14_Claimed ==
    (Parsed /\ ColonMisplaced(arg)) =>
        (~ret[1].ok /\ ret[1].err = "ColonAfterSlash")

\* C14, amended: parse_spec returns an error for every input that contains
\* more than one colon or a colon after a '/': ColonAfterSlash when a '/'
\* stands before the first colon, and IllegalCharacters otherwise.
C14_ColonErrors ==
    (Parsed /\ ColonMisplaced(arg)) =>
        /\ ~ret[1].ok
        /\ ret[1].err =
              IF \E k \in Positions(arg, "/") : k < FirstColon(arg)
              THEN "ColonAfterSlash"
              ELSE "IllegalCharacters"

C14_Witness ==
    /\ Parsed
    /\ Cardinality(Positions(arg, ":")) > 1
    /\ Positions(arg, "/") # {}
    /\ ret[1].err = "IllegalCharacters"
    /\ arg[1] = "t"

\* C15: for every successfully parsed address, pool() is the first path
\* component of fullname and is not empty; relative() is not empty iff the
\* dataset part of the address contained '//', and is then the text that
\* followed the '//'; the host is Local iff there is no colon or the text
\* before the first colon is empty, and otherwise Remote with that text.
C15_PoolRelativeHost ==
    ParsedOk =>
        LET d == ret[1].dataset
            m == ret[1].machine
        IN /\ pool(d) # <<>>
           /\ pool(d) = FirstComponent(fullname(d))
           /\ relative(d) # <<>> <=> HasDoubleSlash(DatasetPart(arg))
           /\ HasDoubleSlash(DatasetPart(arg)) =>
                 relative(d) = AfterDoubleSlash(DatasetPart(arg))
           /\ m.kind = "Local" <=> HostPart(arg) = <<>>
           /\ m.kind # "Local" => (m.kind = "Remote" /\ m.host = HostPart(arg))

C15_Witness ==
    /\ ParsedOk
    /\ ret[1].machine.kind = "Remote"
    /\ relative(ret[1].dataset) # <<>>
    /\ Len(arg) = MaxStr

\* C16: dst.append_relative(src) leaves dst entirely unchanged when
\* src.relative() is empty; otherwise the new fullname is the old one, then
\* '/', then src.relative(), pool() is unchanged, and dst still has a
\* well-formed fullname whose first component is pool().
C16_AppendRelative ==
    Appended =>
        LET before == parse_spec(arg).dataset
            after == ret[1].dataset
            other == ret[1].other
        IN IF relative(other) = <<>>
           THEN after = before
           ELSE /\ fullname(after) = fullname(before) \o <<"/">> \o relative(other)
                /\ pool(after) = pool(before)
                /\ WellFormedName(fullname(after))
                /\ pool(after) = FirstComponent(fullname(after))

C16_Witness ==
    /\ Appended
    /\ Len(relative(ret[1].other)) > 1
    /\ Positions(relative(ret[1].other), "/") # {}
    /\ parse_spec(arg).dataset.relative_idx # None
    /\ Len(fullname(ret[1].dataset)) > MaxStr

\* ------------------------------------- the progress renderer (progressbar.rs)
\* A line of zfs send -vP is the sequence of its tab-separated fields. A
\* number field is its value, or -1 when it is not a number; a target
\* dataset@snapshot is the pair of both names, snapshots being named 1, 2, ...
MaxItems == 3

MaxSize == 2

MaxLines == 2

parse_u64(field) == IF field >= 0 THEN Some(field) ELSE None

\* to.split("@").last()
snap_name_of(target) == target[Len(target)]

PbPanic(msg) == [panicked |-> TRUE, msg |-> msg]

\* The header loop: reads lines until the size line, collecting
\* (name, size) of every item before it.
RECURSIVE ReadHeaders(_, _, _)
ReadHeaders(lines, k, itemized_header_lines) ==
    IF k > Len(lines) THEN PbPanic("assert_ne!(line, 0)")
    ELSE LET fields == lines[k]
         IN IF fields[1] = "size"
            THEN IF Len(fields) < 2 THEN PbPanic("fields[1]: index out of bounds")
                 ELSE IF parse_u64(fields[2]) = None THEN PbPanic("parse: unwrap")
                 ELSE [panicked |-> FALSE, msg |-> "",
                       itemized_header_lines |-> itemized_header_lines,
                       total_size |-> fields[2], k |-> k + 1]
            ELSE IF fields[1] \notin {"full", "incremental"}
            THEN PbPanic("unimplemented: unknown form of zfs send -vP output")
            ELSE LET at == IF fields[1] = "full" THEN 2 ELSE 3
                 IN IF Len(fields) < at + 1 THEN PbPanic("fields: index out of bounds")
                    ELSE IF parse_u64(fields[at + 1]) = None THEN PbPanic("parse: unwrap")
                    ELSE ReadHeaders(lines, k + 1,
                            Append(itemized_header_lines,
                                   <<snap_name_of(fields[at]), fields[at + 1]>>))

Bar(pos, len) == [pos |-> pos, len |-> len, finished |-> FALSE]

\* A mutant of SkipTo: when no item is left the search settles on the last.
RECURSIVE SkipToSettlesOnLast(_, _, _, _, _)
SkipToSettlesOnLast(itemized_header_lines, cur_idx, name, total_pos, items_pos) ==
    IF cur_idx >= Len(itemized_header_lines)
    THEN [panicked |-> FALSE, msg |-> "", cur_idx |-> Len(itemized_header_lines) - 1,
          total_pos |-> total_pos, items_pos |-> items_pos]
    ELSE IF itemized_header_lines[cur_idx + 1][1] # name
    THEN SkipToSettlesOnLast(itemized_header_lines, cur_idx + 1, name,
                total_pos + itemized_header_lines[cur_idx + 1][2], items_pos + 1)
    ELSE [panicked |-> FALSE, msg |-> "", cur_idx |-> cur_idx,
          total_pos |-> total_pos, items_pos |-> items_pos]

\* The while loop that looks for the item a line names: every item passed
\* over is counted in full. cur_idx counts from 0. The loop ends with a
\* panic when no item is left: on the index in its condition when it is
\* entered past the last item, on its assert! after it passed the last.
RECURSIVE SkipTo(_, _, _, _, _)
SkipTo(itemized_header_lines, cur_idx, name, total_pos, items_pos) ==
    IF cur_idx >= Len(itemized_header_lines)
    THEN PbPanic("itemized_header_lines[cur_idx]: index out of bounds")
    ELSE IF itemized_header_lines[cur_idx + 1][1] # name
    THEN IF cur_idx + 1 >= Len(itemized_header_lines)
         THEN PbPanic("assert!(cur_idx < itemized_header_lines.len())")
         ELSE SkipTo(itemized_header_lines, cur_idx + 1, name,
                     total_pos + itemized_header_lines[cur_idx + 1][2], items_pos + 1)
    ELSE [panicked |-> FALSE, msg |-> "", cur_idx |-> cur_idx,
          total_pos |-> total_pos, items_pos |-> items_pos]

\* A mutant of NewSnapshot: the rest of the item left behind is not added
\* to the total.
NewSnapshotNoCloseOut(st, name, xfer) ==
    LET delta == st.cur_snap_bytes - st.cur_xfer
        found == SkipTo(st.itemized_header_lines, st.cur_idx + 1, name,
                        st.pb_total_bytes.pos, st.pb_total_items.pos + 1)
    IN IF st.cur_xfer > st.cur_snap_bytes
       THEN PbPanic("attempt to subtract with overflow")
       ELSE IF found.panicked THEN found
       ELSE LET cur_snap_bytes == st.itemized_header_lines[found.cur_idx + 1][2]
            IN [st EXCEPT
                  !.cur_idx = found.cur_idx,
                  !.cur_snap_name = st.itemized_header_lines[found.cur_idx + 1][1],
                  !.cur_snap_bytes = cur_snap_bytes,
                  !.pb_total_items.pos = found.items_pos,
                  !.pb_current_bytes = Bar(xfer, cur_snap_bytes),
                  !.pb_total_bytes.pos = found.total_pos + xfer,
                  !.cur_xfer = xfer]

\* The branch of a line that names another snapshot than the current one.
NewSnapshot(st, name, xfer) ==
    LET delta == st.cur_snap_bytes - st.cur_xfer
        found == SkipTo(st.itemized_header_lines, st.cur_idx + 1, name,
                        st.pb_total_bytes.pos + delta, st.pb_total_items.pos + 1)
    IN IF st.cur_xfer > st.cur_snap_bytes
       THEN PbPanic("attempt to subtract with overflow")
       ELSE IF found.panicked THEN found
       ELSE LET cur_snap_bytes == st.itemized_header_lines[found.cur_idx + 1][2]
            IN [st EXCEPT
                  !.cur_idx = found.cur_idx,
                  !.cur_snap_name = st.itemized_header_lines[found.cur_idx + 1][1],
                  !.cur_snap_bytes = cur_snap_bytes,
                  !.pb_total_items.pos = found.items_pos,
                  !.pb_current_bytes = Bar(xfer, cur_snap_bytes),
                  !.pb_total_bytes.pos = found.total_pos + xfer,
                  !.cur_xfer = xfer]

\* The branch of a line that names the current snapshot.
SameSnapshot(st, xfer) ==
    LET delta == xfer - st.cur_xfer
    IN IF xfer < st.cur_xfer
       THEN PbPanic("attempt to subtract with overflow")
       ELSE [st EXCEPT
               !.pb_current_bytes.pos = @ + delta,
               !.pb_total_bytes.pos = @ + delta,
               !.cur_xfer = xfer]

\* The state after the header: lines 40 to 50.
StartBars(h) ==
    IF h.panicked THEN h
    ELSE IF Len(h.itemized_header_lines) = 0
    THEN PbPanic("itemized_header_lines[0]: index out of bounds")
    ELSE [panicked |-> FALSE, msg |-> "",
          itemized_header_lines |-> h.itemized_header_lines,
          total_size |-> h.total_size,
          cur_xfer |-> 0,
          cur_idx |-> 0,
          cur_snap_name |-> h.itemized_header_lines[1][1],
          cur_snap_bytes |-> h.itemized_header_lines[1][2],
          pb_total_items |-> Bar(0, Len(h.itemized_header_lines)),
          pb_total_bytes |-> Bar(0, h.total_size),
          pb_current_bytes |-> Bar(0, h.itemized_header_lines[1][2]),
          k |-> h.k]

\* One turn of the loop over the progress lines.
progress_line(st, fields) ==
    IF Len(fields) < 3 THEN PbPanic("fields[2]: index out of bounds")
    ELSE IF parse_u64(fields[2]) = None THEN PbPanic("parse: unwrap")
    ELSE IF Len(fields) # 3 THEN PbPanic("assert_eq!(fields.len(), 3)")
    ELSE LET name == snap_name_of(fields[3])
             xfer == fields[2]
             next == IF st.cur_snap_name # name
                     THEN NewSnapshot(st, name, xfer)
                     ELSE SameSnapshot(st, xfer)
         IN IF next.panicked THEN next ELSE [next EXCEPT !.k = st.k + 1]

\* pb_total_items.finish(), pb_total_bytes.finish(), pb_current_bytes.finish():
\* a finished bar stands at its length.
finish(st) ==
    LET done(bar) == [pos |-> bar.len, len |-> bar.len, finished |-> TRUE]
    IN [st EXCEPT !.pb_total_items = done(@),
                  !.pb_total_bytes = done(@),
                  !.pb_current_bytes = done(@)]

\* ------------------------------------------------ the renderer's harness
Target(i) == <<"tank", i>>

ItemLine(kind, i, size) ==
    IF kind = "full" THEN <<"full", Target(i), size>>
    ELSE <<"incremental", Target(i - 1), Target(i), size>>

RECURSIVE SumSizes(_, _)
SumSizes(sizes, n) == IF n = 0 THEN 0 ELSE sizes[n] + SumSizes(sizes, n - 1)

DataLine(i, x) == <<"T", x, Target(i)>>

\* The progress lines zfs send writes for items of these sizes: the items in
\* header order, the bytes of one item never going down nor above its size.
IsProgressOf(d, sizes) ==
    /\ \A k \in 1..Len(d) : d[k][1] <= Len(sizes) /\ d[k][2] <= sizes[d[k][1]]
    /\ \A k \in 1..(Len(d) - 1) :
          \/ d[k][1] < d[k + 1][1]
          \/ d[k][1] = d[k + 1][1] /\ d[k][2] <= d[k + 1][2]

\* An item is small or large.
ItemSizes == {1, MaxSize}

SendStream(sizes, kind, d) ==
    [k \in 1..Len(sizes) |-> ItemLine(IF k = 1 THEN kind ELSE "incremental", k, sizes[k])]
       \o <<(<<"size", SumSizes(sizes, Len(sizes))>>)>>
       \o [k \in 1..Len(d) |-> DataLine(d[k][1], d[k][2])]

\* What zfs send -vP writes on stderr: a header line for each item (the first
\* a full or an incremental one), the size line, the progress lines.
SendStreams ==
    {SendStream(x[1], x[2], x[3]) :
        x \in {y \in (UNION {[1..n -> ItemSizes] : n \in 1..MaxItems})
                       \X {"full", "incremental"}
                       \X SeqsUpTo((1..MaxItems) \X (0..MaxSize), MaxLines) :
                  IsProgressOf(y[3], y[1])}}

\* The ways a stream that ends in the middle of its last progress line can
\* end: in the first field, in the number, in the target.
CutLine(line, fields) ==
    IF fields < 3 THEN SubSeq(line, 1, fields)
    ELSE <<line[1], line[2], Target(0)>>

TruncatedStreams ==
    {SubSeq(x[1], 1, Len(x[1]) - 1) \o <<CutLine(x[1][Len(x[1])], x[2])>> :
        x \in {t \in SendStreams : t[Len(t)][1] = "T"} \X (1..3)}

\* Streams of two progress lines, the second naming an item before the item
\* of the first.
OutOfOrderStreams ==
    {SendStream(x[1], x[2], <<x[3], <<x[4], 0>>>>) :
        x \in {y \in (UNION {[1..n -> ItemSizes] : n \in 1..MaxItems})
                       \X {"full", "incremental"}
                       \X ((1..MaxItems) \X (0..MaxSize))
                       \X (1..MaxItems) :
                  /\ y[3][1] <= Len(y[1])
                  /\ y[3][2] <= y[1][y[3][1]]
                  /\ y[4] < y[3][1]}}

\* The empty stream is what a sender that wrote nothing leaves.
RendererInputs == SendStreams \cup TruncatedStreams \cup OutOfOrderStreams \cup {<<>>}

InitProgress ==
    /\ pc = "pb_header"
    /\ arg \in RendererInputs
    /\ ret = None
    /\ OrchestratorIdle

\* The header loop and the making of the bars.
ReadHeader ==
    /\ pc = "pb_header"
    /\ LET st == StartBars(ReadHeaders(arg, 1, <<>>))
       IN /\ ret' = Some(st)
          /\ pc' = IF st.panicked THEN "pb_panicked" ELSE "pb_lines"
    /\ UNCHANGED <<arg, orchestrator_vars>>

\* One progress line.
ProgressLine ==
    /\ pc = "pb_lines"
    /\ ret[1].k <= Len(arg)
    /\ LET st == progress_line(ret[1], arg[ret[1].k])
       IN /\ ret' = Some(st)
          /\ pc' = IF st.panicked THEN "pb_panicked" ELSE "pb_lines"
    /\ UNCHANGED <<arg, orchestrator_vars>>

\* End of the stream: the bars are finished and the renderer returns.
FinishBars ==
    /\ pc = "pb_lines"
    /\ ret[1].k > Len(arg)
    /\ ret' = Some(finish(ret[1]))
    /\ pc' = "pb_returned"
    /\ UNCHANGED <<arg, orchestrator_vars>>

NextProgress == ReadHeader \/ ProgressLine \/ FinishBars

SpecProgress == InitProgress /\ [][NextProgress]_vars

\* ------------------------------------ vocabulary of the renderer's claims
IsHeaderItem(line) == line[1] \in {"full", "incremental"}

ItemName(line) == snap_name_of(line[IF line[1] = "full" THEN 2 ELSE 3])

ItemSize(line) == line[IF line[1] = "full" THEN 3 ELSE 4]

\* Where the size line stands: 0 when there is none.
SizeLine(lines) ==
    IF \E k \in 1..Len(lines) : lines[k][1] = "size"
    THEN CHOOSE k \in 1..Len(lines) :
            lines[k][1] = "size" /\ \A j \in 1..(k - 1) : lines[j][1] # "size"
    ELSE 0

\* The header item a progress line names.
ItemOf(lines, line) ==
    CHOOSE i \in 1..(SizeLine(lines) - 1) : ItemName(lines[i]) = snap_name_of(line[3])

IsProgressLine(lines, line) ==
    /\ Len(line) = 3
    /\ line[1] = "T"
    /\ line[2] >= 0
    /\ \E i \in 1..(SizeLine(lines) - 1) : ItemName(lines[i]) = snap_name_of(line[3])

\* One or more header items with different names, the size line, then
\* progress lines that name the items in header order, the bytes of an item
\* never going down nor above the size its header line gives.
WellFormedStream(lines) ==
    LET h == SizeLine(lines)
    IN /\ h >= 2
       /\ \A k \in 1..(h - 1) : IsHeaderItem(lines[k])
       /\ \A k, l \in 1..(h - 1) : ItemName(lines[k]) = ItemName(lines[l]) => k = l
       /\ \A k \in (h + 1)..Len(lines) :
             /\ IsProgressLine(lines, lines[k])
             /\ lines[k][2] <= ItemSize(lines[ItemOf(lines, lines[k])])
       /\ \A k \in (h + 1)..(Len(lines) - 1) :
             \/ ItemOf(lines, lines[k]) < ItemOf(lines, lines[k + 1])
             \/ /\ ItemOf(lines, lines[k]) = ItemOf(lines, lines[k + 1])
                /\ lines[k][2] <= lines[k + 1][2]

RECURSIVE SizesBefore(_, _)
SizesBefore(lines, i) ==
    IF i <= 1 THEN 0 ELSE ItemSize(lines[i - 1]) + SizesBefore(lines, i - 1)

\* The renderer has taken a progress line and stands before the next.
AfterProgressLine ==
    /\ pc = "pb_lines"
    /\ ret[1].k > SizeLine(arg) + 1

LastLine == arg[ret[1].k - 1]

\* C17: for any well-formed sender stream the renderer never panics, and
\* after each data line the current-item bar has the length of the current
\* item's size and stands at the line's transferred bytes, the total-bytes
\* bar stands at the sizes of all header items before the current one plus
\* the line's transferred bytes, and the items bar stands at the number of
\* header items before the current one, whether or not items passed over
\* had data lines of their own.
C17_BarsFollowTheStream ==
    WellFormedStream(arg) =>
        /\ pc # "pb_panicked"
        /\ AfterProgressLine =>
              LET i == ItemOf(arg, LastLine)
                  st == ret[1]
              IN /\ st.pb_current_bytes.len = ItemSize(arg[i])
                 /\ st.pb_current_bytes.pos = LastLine[2]
                 /\ st.pb_total_bytes.pos = SizesBefore(arg, i) + LastLine[2]
                 /\ st.pb_total_items.pos = i - 1

\* A line of the third item after a line in the middle of the first: the
\* second item had no line of its own.
C17_Witness ==
    /\ WellFormedStream(arg)
    /\ AfterProgressLine
    /\ ret[1].k > SizeLine(arg) + 2
    /\ ItemOf(arg, LastLine) = 3
    /\ ItemOf(arg, arg[ret[1].k - 2]) = 1
    /\ arg[ret[1].k - 2][2] < ItemSize(arg[1])
    /\ ItemSize(arg[2]) = MaxSize
    /\ LastLine[2] > 0

\* The stream ends after the header, at a line's end or inside a line.
TruncatedAfterHeader(lines) ==
    LET h == SizeLine(lines)
    IN /\ h >= 2
       /\ \A k \in 1..(h - 1) : IsHeaderItem(lines[k])
       /\ \E full \in SendStreams :
             /\ Len(full) >= Len(lines)
             /\ \A k \in 1..(Len(lines) - 1) : full[k] = lines[k]
             /\ Len(lines) > h =>
                   \/ full[Len(lines)] = lines[Len(lines)]
                   \/ \E n \in 1..3 : CutLine(full[Len(lines)], n) = lines[Len(lines)]

\* C18 as claimed: the renderer returns cleanly, without a panic, on the
\* empty stream, and on a stream truncated at any point after the header it
\* finishes the bars and returns.
C18_Claimed ==
    (arg = <<>> \/ TruncatedAfterHeader(arg)) =>
        /\ pc # "pb_panicked"
        /\ pc = "pb_returned" =>
              /\ ret[1].pb_total_items.finished
              /\ ret[1].pb_total_bytes.finished
              /\ ret[1].pb_current_bytes.finished

\* ------------------------------------------------- retention (dataset.rs)
\* Time is counted in days; day 0 is a Sunday.
RetentionDays == 180

MaxSnaps == 2

MaxTagged == 4

\* Regex ^\d{4}-\d{2}-\d{2}$ on a name, a sequence of characters.
normal_name_is_match(name) ==
    /\ Len(name) = 10
    /\ \A k \in {1, 2, 3, 4, 6, 7, 9, 10} :
          name[k] \in {"0", "1", "2", "3", "4", "5", "6", "7", "8", "9"}
    /\ name[5] = "-"
    /\ name[8] = "-"

\* __basic_snap_retention_criteria: TRUE is to keep. The function has no
\* parameter for RetentionOpts.keep_unusual.
basic_snap_retention_criteria(s, when) ==
    LET chrono_decision == s.creation % 7 = 0 /\ (when - s.creation) < RetentionDays
        name_decision == ~normal_name_is_match(s.name)
        holds_decision == s.holds # 0
    IN chrono_decision \/ name_decision \/ holds_decision

\* Dataset::tag_snaps_for_deletion with the default criterion.
tag_snaps_for_deletion(snaps, when) ==
    [k \in 1..Len(snaps) |-> <<basic_snap_retention_criteria(snaps[k], when), snaps[k]>>]

\* The groups of group_by(|tup| tup.0) whose key is false: the runs of
\* consecutive snapshots not to keep. run is the group being gathered.
RECURSIVE Groups(_, _, _, _)
Groups(tagged_snaps, k, run, groups) ==
    IF k > Len(tagged_snaps)
    THEN IF run = <<>> THEN groups ELSE Append(groups, run)
    ELSE IF tagged_snaps[k][1]
    THEN Groups(tagged_snaps, k + 1, <<>>,
                IF run = <<>> THEN groups ELSE Append(groups, run))
    ELSE Groups(tagged_snaps, k + 1, Append(run, tagged_snaps[k][2]), groups)

\* A piece of the rendered string: a snapshot name ("name"), the range
\* sign ("%") or the separator of items (",\\\n": comma, backslash, newline).
Token(t, name) == [t |-> t, name |-> name]

\* A mutant of RenderGroup: a run of two is written as its first name.
RenderGroupShort(group) ==
    IF Len(group) <= 2
    THEN <<Token("name", group[1].name)>>
    ELSE <<Token("name", group[1].name), Token("%", <<>>),
           Token("name", group[Len(group)].name)>>

RenderGroup(group) ==
    IF Len(group) = 1
    THEN <<Token("name", group[1].name)>>
    ELSE <<Token("name", group[1].name), Token("%", <<>>),
           Token("name", group[Len(group)].name)>>

RECURSIVE Join(_, _)
Join(items, k) ==
    IF k > Len(items) THEN <<>>
    ELSE IF k = Len(items) THEN items[k]
    ELSE items[k] \o <<Token(",\\\n", <<>>)>> \o Join(items, k + 1)

render_tagged_snaps_for_deletion(tagged_snaps) ==
    LET groups == Groups(tagged_snaps, 1, <<>>, <<>>)
    IN Join([k \in 1..Len(groups) |-> RenderGroup(groups[k])], 1)

\* --- harness: a dataset is tagged and the tags are rendered
\* The name of the k-th snapshot of a dataset: a date ("normal"), a date
\* with one digit too many ("long") or a word.
SnapName(kind, k) ==
    LET digit == <<"1", "2", "3", "4", "5", "6", "7", "8", "9">>[k]
        date == <<"2", "0", "2", "1", "-", "0", "7", "-", "1", digit>>
    IN CASE kind = "normal" -> date
         [] kind = "long" -> date \o <<"0">>
         [] OTHER -> <<"w", digit>>

\* A dataset of at most MaxSnaps snapshots, oldest first, their ages at
\* `when` on both sides of RetentionDays; when runs over a week.
RetentionInputs ==
    LET ages == {0, RetentionDays - 1, RetentionDays, RetentionDays + 1}
        whens == {2 * RetentionDays + 4 + d : d \in 0..6}
        choices == {"normal", "long", "word"} \X ages \X {0, 2}
        oldest_first(f) == \A k \in 1..(Len(f) - 1) : f[k][2] >= f[k + 1][2]
    IN {[opts |-> [keep_unusual |-> x[1]], when |-> x[2],
         snaps |-> [k \in 1..Len(x[3]) |->
                       [guid |-> k, name |-> SnapName(x[3][k][1], k),
                        creation |-> x[2] - x[3][k][2], holds |-> x[3][k][3]]]] :
           x \in {y \in BOOLEAN \X whens \X SeqsUpTo(choices, MaxSnaps) :
                     oldest_first(y[3])}}

\* Any tagging of a dataset of at most MaxTagged snapshots.
TaggedInputs ==
    UNION {{[k \in 1..n |-> <<keep[k], [guid |-> k, name |-> SnapName("normal", k),
                                        creation |-> k, holds |-> 0]>>] :
               keep \in [1..n -> BOOLEAN]} : n \in 0..MaxTagged}

InitRetention ==
    /\ \/ pc = "tag" /\ arg \in RetentionInputs
       \/ pc = "render" /\ arg \in TaggedInputs
    /\ ret = None
    /\ OrchestratorIdle

\* dataset.tag_snaps_for_deletion(retention_criteria)
TagSnaps ==
    /\ pc = "tag"
    /\ ret' = [tagged |-> tag_snaps_for_deletion(arg.snaps, arg.when),
               rendered |-> <<>>]
    /\ pc' = "tagged"
    /\ UNCHANGED <<arg, orchestrator_vars>>

\* render_tagged_snaps_for_deletion(tagged_snaps)
Render ==
    /\ pc \in {"tagged", "render"}
    /\ LET tagged_snaps == IF pc = "tagged" THEN ret.tagged ELSE arg
       IN ret' = [tagged |-> tagged_snaps,
                  rendered |-> render_tagged_snaps_for_deletion(tagged_snaps)]
    /\ pc' = "rendered"
    /\ UNCHANGED <<arg, orchestrator_vars>>

NextRetention == TagSnaps \/ Render

SpecRetention == InitRetention /\ [][NextRetention]_vars

\* --- claims about retention
\* C19 as claimed: once a dataset is tagged, every snapshot of the dataset is
\* paired, in order, with a verdict that is TRUE exactly when the snapshot
\* was created on a Sunday less than 180 days before now, or has a hold, or
\* keep_unusual is set and its name is not a date; so a snapshot with an
\* unusual name gets no TRUE from its name when keep_unusual is not set.
C19_Claimed ==
    pc = "tagged" =>
        /\ Len(ret.tagged) = Len(arg.snaps)
        /\ \A k \in 1..Len(arg.snaps) :
              LET s == arg.snaps[k]
              IN /\ ret.tagged[k][2] = s
                 /\ ret.tagged[k][1] <=>
                       \/ s.creation % 7 = 0 /\ arg.when - s.creation < RetentionDays
                       \/ s.holds > 0
                       \/ arg.opts.keep_unusual /\ ~normal_name_is_match(s.name)

\* What `zfs destroy pool/dataset@<output>` reads in the rendered string,
\* from its k-th piece on: a name is that snapshot, a%b is every snapshot
\* from a through b in the dataset's order of names.
RECURSIVE Decode(_, _, _)
Decode(tokens, k, order) ==
    LET at(name) == CHOOSE i \in 1..Len(order) : order[i] = name
    IN IF k > Len(tokens) THEN {}
       ELSE IF tokens[k].t # "name" THEN Decode(tokens, k + 1, order)
       ELSE IF k + 2 <= Len(tokens) /\ tokens[k + 1].t = "%"
       THEN {order[i] : i \in at(tokens[k].name)..at(tokens[k + 2].name)}
               \cup Decode(tokens, k + 3, order)
       ELSE {tokens[k].name} \cup Decode(tokens, k + 1, order)

\* C20: the rendered string holds one item per maximal run of consecutive
\* snapshots not to keep, in the dataset's order: the name of a run of one,
\* first%last of a longer run, the items joined by comma, backslash and
\* newline, and nothing else; and decoding it against the dataset's order
\* gives exactly the snapshots whose verdict is FALSE.
C20_RenderRuns ==
    pc = "rendered" =>
        LET tagged == ret.tagged
            out == ret.rendered
            n == Len(tagged)
            name(k) == tagged[k][2].name
            kept(k) == tagged[k][1]
            Runs == {r \in (1..n) \X (1..n) :
                        /\ r[1] <= r[2]
                        /\ \A k \in r[1]..r[2] : ~kept(k)
                        /\ r[1] = 1 \/ kept(r[1] - 1)
                        /\ r[2] = n \/ kept(r[2] + 1)}
            Ones == {r \in Runs : r[1] = r[2]}
            size(r) == IF r \in Ones THEN 1 ELSE 3
            start(r) == 1 + 2 * Cardinality({q \in Ones : q[1] < r[1]})
                          + 4 * Cardinality({q \in Runs \ Ones : q[1] < r[1]})
        IN /\ Len(out) = IF Runs = {} THEN 0
                         ELSE 2 * Cardinality(Ones) + 4 * Cardinality(Runs \ Ones) - 1
           /\ \A r \in Runs :
                 /\ out[start(r)] = Token("name", name(r[1]))
                 /\ r \notin Ones =>
                       /\ out[start(r) + 1] = Token("%", <<>>)
                       /\ out[start(r) + 2] = Token("name", name(r[2]))
                 /\ start(r) + size(r) <= Len(out) =>
                       out[start(r) + size(r)] = Token(",\\\n", <<>>)
           /\ Decode(out, 1, [k \in 1..n |-> name(k)])
                 = {name(k) : k \in {i \in 1..n : ~kept(i)}}

\* A tagging with a run of two or more, a run of one and a kept snapshot
\* has been rendered.
C20_Witness ==
    /\ pc = "rendered"
    /\ \E k \in 1..(Len(ret.tagged) - 1) : ~ret.tagged[k][1] /\ ~ret.tagged[k + 1][1]
    /\ \E k \in 2..Len(ret.tagged) : ret.tagged[k - 1][1] /\ ~ret.tagged[k][1]
                                       /\ k = Len(ret.tagged)
    /\ Len(ret.rendered) = 5

\* ------------------------------------- Snap equality and order (dataset.rs)
\* struct Snap with all its fields.
SnapRecords ==
    [guid : 1..MaxGuid, name : {"2021-07-12", "different"},
     creation : 1..MaxTime, holds : {0, 1}]

InitSnap ==
    /\ pc = "snap"
    /\ arg \in SnapRecords \X SnapRecords
    /\ ret = None
    /\ OrchestratorIdle

\* arg[1] == arg[2] and arg[1].partial_cmp(&arg[2])
CompareSnaps ==
    /\ pc = "snap"
    /\ ret' = [eq |-> snap_eq(arg[1], arg[2]), cmp |-> partial_cmp(arg[1], arg[2])]
    /\ pc' = "compared"
    /\ UNCHANGED <<arg, orchestrator_vars>>

NextSnap == CompareSnaps

SpecSnap == InitSnap /\ [][NextSnap]_vars

\* C21: two snapshots are equal exactly when their guids are, whatever
\* their names, creations and holds; their order is Equal exactly when the
\* guids are equal, otherwise Less or Greater as the creations are, and
\* there is no order exactly when the guids differ and the creations are
\* the same.
C21_EqualityByGuid ==
    pc = "compared" =>
        LET a == arg[1]
            b == arg[2]
        IN /\ ret.eq <=> a.guid = b.guid
           /\ ret.cmp = Some("Equal") <=> a.guid = b.guid
           /\ ret.cmp = Some("Less") <=> a.guid # b.guid /\ a.creation < b.creation
           /\ ret.cmp = Some("Greater") <=> a.guid # b.guid /\ a.creation > b.creation
           /\ ret.cmp = None <=> a.guid # b.guid /\ a.creation = b.creation

\* Two snapshots of one guid that differ in name, creation and holds have
\* been compared, and found equal.
C21_Witness ==
    /\ pc = "compared"
    /\ arg[1].guid = arg[2].guid
    /\ arg[1].name # arg[2].name
    /\ arg[1].creation # arg[2].creation
    /\ arg[1].holds # arg[2].holds
    /\ ret.eq

\* --- further claims about comm and find_mrcud
\* C22: comm panics when the first two heads it compares have one creation
\* and different guids; and for two strictly increasing vectors in which a
\* guid has one creation on both sides, if a snapshot of the one and a
\* snapshot of the other have one creation and different guids, comm
\* panics: it returns no merge, and neither does find_mrcud.
C22_IncomparablePanics ==
    Reconciled =>
        LET A == src_snaps
            B == dst_snaps
            incomparable(a, b) == a.guid # b.guid /\ a.creation = b.creation
        IN /\ (A # <<>> /\ B # <<>> /\ incomparable(A[1], B[1])) =>
                 comm_result[1].panicked
           /\ (/\ StrictlyIncreasing(A) /\ StrictlyIncreasing(B)
               /\ SameCreationPerGuid(A, B)
               /\ \E k \in 1..Len(A), l \in 1..Len(B) : incomparable(A[k], B[l])) =>
                 comm_result[1].panicked /\ Mrcud.kind = "Panic"

\* The merge of two sorted vectors has panicked on a pair of snapshots that
\* were not the first heads.
C22_Witness ==
    /\ Reconciled
    /\ SortedInputs(src_snaps, dst_snaps)
    /\ SameCreationPerGuid(src_snaps, dst_snaps)
    /\ Len(src_snaps) = 2 /\ Len(dst_snaps) >= 1
    /\ src_snaps[1].creation < dst_snaps[1].creation
    /\ src_snaps[2].creation = dst_snaps[1].creation
    /\ src_snaps[2].guid # dst_snaps[1].guid
    /\ comm_result[1].panicked

\* C25: when comm returns, its index is None exactly when no entry of the
\* merge is tagged BOTH; otherwise it is the position (counted from 0) of
\* the last BOTH entry: the entry there is BOTH and no entry after it is.
C25_IndexOfLastBoth ==
    (Reconciled /\ CommReturned) =>
        LET idx == comm_result[1].idx
        IN /\ idx = None <=> BothPositions = {}
           /\ idx # None =>
                 /\ idx[1] + 1 \in 1..Len(CommVec)
                 /\ CommVec[idx[1] + 1].side = "BOTH"
                 /\ \A k \in (idx[1] + 2)..Len(CommVec) : CommVec[k].side # "BOTH"
                 /\ idx[1] + 1 = LastBoth

\* A merge with two BOTH entries has been returned, its index on the second.
C25_Witness ==
    /\ Reconciled /\ CommReturned
    /\ Cardinality(BothPositions) = 2
    /\ comm_result[1].idx = Some(1)

\* C29: when comm returns, on vectors sorted or not, the LEFT and BOTH
\* entries of the merge are the records of A, each once and in A's order;
\* the RIGHT and BOTH entries stand for the snapshots of B, each once and in
\* B's order, a RIGHT entry being B's record and a BOTH entry having the
\* guid of B's; a BOTH entry has a guid that is on both sides; and the
\* snapshot find_mrcud carries is a record of the source whose guid is on
\* both sides.
C29_EntriesComeFromTheirSide ==
    (Reconciled /\ CommReturned) =>
        LET A == src_snaps
            B == dst_snaps
            ofB(p) == CommVec[p].side \in {"RIGHT", "BOTH"}
            nth(k) == CHOOSE p \in 1..Len(CommVec) :
                         ofB(p) /\ Cardinality({q \in 1..p : ofB(q)}) = k
        IN /\ SelectSides(CommVec, {"LEFT", "BOTH"}) = A
           /\ Cardinality({p \in 1..Len(CommVec) : ofB(p)}) = Len(B)
           /\ \A k \in 1..Len(B) :
                 IF CommVec[nth(k)].side = "RIGHT"
                 THEN CommVec[nth(k)].snap = B[k]
                 ELSE CommVec[nth(k)].snap.guid = B[k].guid
           /\ \A p \in BothPositions :
                 CommVec[p].snap.guid \in GuidsOf(A) \cap GuidsOf(B)
           /\ Mrcud.snap # None =>
                 /\ \E k \in 1..Len(A) : Mrcud.snap[1] = A[k]
                 /\ Mrcud.snap[1].guid \in GuidsOf(B)

\* find_mrcud carries a record of the source that the destination holds
\* with another creation, and the merge has a RIGHT entry.
C29_Witness ==
    /\ Reconciled /\ CommReturned
    /\ Mrcud.snap # None
    /\ \E k \in 1..Len(src_snaps) : Mrcud.snap[1] = src_snaps[k]
    /\ \A l \in 1..Len(dst_snaps) : Mrcud.snap[1] # dst_snaps[l]
    /\ \E p \in 1..Len(CommVec) : CommVec[p].side = "RIGHT"

\* C30: when comm returns, find_mrcud with the two datasets exchanged is
\* NoneInCommon, UpToDate or Divergence exactly when find_mrcud is, is
\* SourceHasMore exactly when find_mrcud is DestinationHasMore and the other
\* way round, and carries a snapshot of the same guid.
C30_MrcudMirrors ==
    (Reconciled /\ CommReturned) =>
        LET reversed == find_mrcud(dst_snaps, src_snaps)
            mirror(kind) == CASE kind = "SourceHasMore" -> "DestinationHasMore"
                              [] kind = "DestinationHasMore" -> "SourceHasMore"
                              [] OTHER -> kind
        IN /\ Mrcud.kind \in {"NoneInCommon", "UpToDate", "Divergence",
                              "SourceHasMore", "DestinationHasMore"}
           /\ reversed.kind = mirror(Mrcud.kind)
           /\ reversed.snap = None <=> Mrcud.snap = None
           /\ Mrcud.snap # None => reversed.snap[1].guid = Mrcud.snap[1].guid

\* find_mrcud has reported DestinationHasMore on sorted vectors; with the
\* vectors exchanged it reports SourceHasMore.
C30_Witness ==
    /\ Reconciled /\ CommReturned
    /\ SortedInputs(src_snaps, dst_snaps)
    /\ Mrcud.kind = "DestinationHasMore"
    /\ find_mrcud(dst_snaps, src_snaps).kind = "SourceHasMore"
    /\ Len(dst_snaps) = MaxLen

\* --- further claims about the orchestrator
\* C23: get_snaps reports NoDataset exactly when its command failed with a
\* stderr that ends with 'dataset does not exist\n', whether or not the
\* stderr begins with 'sh: ', and NoZFSRuntime for the other failures whose
\* stderr begins with 'sh: '. replicate_dataset goes on after the listing
\* of the source only if it succeeded, and after the listing of the
\* destination only if it succeeded or reported NoDataset, which becomes
\* dst_dataset_existed = FALSE; on every other failure of a listing it
\* returns that error at once, having run nothing else.
C23_OnlyNoDatasetIsRecovered ==
    arg # None =>
        LET out == arg[1]
            r == ret[1]
            failed == out.spawned /\ ~out.success
            no_dataset == failed /\ ends_with(out.stderr, <<"dataset does not exist", "\n">>)
            listing_failed(msg) ==
                /\ Result = [kind |-> "Err", msg |-> msg, cause |-> r.err]
                /\ comm_result = None /\ mrcud = None
                /\ children = <<>> /\ statuses = <<>>
        IN /\ r.ok <=> out.spawned /\ out.success
           /\ r.err = "SubprocessError" <=> ~out.spawned
           /\ r.err = "NoDataset" <=> no_dataset
           /\ r.err = "NoZFSRuntime" <=>
                 failed /\ ~no_dataset /\ starts_with(out.stderr, <<"sh: ">>)
           /\ r.err = "ZFSCommandExecutionError" <=>
                 failed /\ ~no_dataset /\ ~starts_with(out.stderr, <<"sh: ">>)
           /\ pc = "get_snaps_dst" => r.ok
           /\ pc = "find_mrcud" =>
                 \/ r.ok /\ dst_dataset_existed
                 \/ r.err = "NoDataset" /\ ~dst_dataset_existed /\ dst_snaps = <<>>
           /\ ~r.ok =>
                 \/ /\ Returned
                    /\ dst_snaps = <<>> /\ ~dst_dataset_existed
                    /\ listing_failed("Unable to get snapshots for source")
                 \/ /\ Returned
                    /\ r.err \in {"NoZFSRuntime", "SubprocessError", "ZFSCommandExecutionError"}
                    /\ listing_failed("Unable to get snapshots for destination")
                 \/ /\ r.err = "NoDataset"
                    /\ ~dst_dataset_existed
                    /\ pc \notin {"get_snaps_src", "get_snaps_dst"}
                    /\ Returned =>
                          Result.msg \notin {"Unable to get snapshots for source",
                                             "Unable to get snapshots for destination"}

\* The listing of the destination has failed with a stderr that begins with
\* 'sh: ' and ends with 'dataset does not exist\n', and replicate_dataset
\* goes on with dst_dataset_existed = FALSE.
C23_Witness ==
    /\ pc = "find_mrcud"
    /\ arg = Some(Output(FALSE, StderrShNoDataset))
    /\ ret = Some(Err("NoDataset"))
    /\ ~dst_dataset_existed
    /\ src_snaps # <<>>

\* C24 as claimed: when replicate_dataset returns, with Ok or with Err, the
\* exit status of every child it has spawned has been collected: of the
\* sender too when the receiver could not be spawned or the progress bar
\* returned an error.
C24_Claimed ==
    (Returned /\ Result.kind \in {"Ok", "Err"}) =>
        /\ Len(statuses) = Len(children)
        /\ \A k \in 1..Len(children) :
              children[k].cmd = "send" => \E e \in 1..Len(events) : events[e] = "wait send"

\* --- a further claim about addresses
\* C26: parse_spec fails with the error of the first rule the address
\* breaks, the rules taken in this order: a colon after the first '/'
\* (ColonAfterSlash), nothing after the colon (ZeroLengthAfterColon), a
\* character in the dataset part that is no name character and no '/'
\* (IllegalCharacters: a second colon is one), a '/' at either end of the
\* dataset part (IllegalSlashes), an empty component besides the one '//'
\* (EmptyComponent); and it succeeds when no rule is broken.
C26_FirstBrokenRule ==
    Parsed =>
        LET colons == Positions(arg, ":")
            slashes == Positions(arg, "/")
            d == DatasetPart(arg)
            colon_after_slash ==
                colons # {} /\ slashes # {} /\ \E k \in slashes : k < FirstColon(arg)
            illegal == \E k \in 1..Len(d) : d[k] \notin {"t", "-", "_", "/"}
            doubles == {k \in 1..(Len(d) - 1) : d[k] = "/" /\ d[k + 1] = "/"}
            expected == IF colon_after_slash THEN "ColonAfterSlash"
                        ELSE IF d = <<>> THEN "ZeroLengthAfterColon"
                        ELSE IF illegal THEN "IllegalCharacters"
                        ELSE IF d[1] = "/" \/ d[Len(d)] = "/" THEN "IllegalSlashes"
                        ELSE IF Cardinality(doubles) > 1 THEN "EmptyComponent"
                        ELSE ""
        IN /\ ret[1].err = expected
           /\ ret[1].ok <=> expected = ""

\* An address whose dataset part ends with '/' and has an empty component
\* has failed with IllegalSlashes.
C26_Witness ==
    /\ Parsed
    /\ ret[1].err = "IllegalSlashes"
    /\ Positions(arg, ":") # {}
    /\ \E k \in 2..(Len(arg) - 2) : arg[k] = "/" /\ arg[k + 1] = "/" /\ arg[k + 2] = "/"

\* --- a further claim about the renderer
\* Line k of the stream is the first progress line that names a target
\* which is not in the header list at or after the current position: the
\* lines before it make a well-formed stream, and the current position is
\* the item of the line before, or the first item.
FirstLineOffTheList(lines, k) ==
    LET h == SizeLine(lines)
        cur == IF k = h + 1 THEN 1 ELSE ItemOf(lines, lines[k - 1])
    IN /\ k \in (h + 1)..Len(lines)
       /\ Len(lines[k]) = 3 /\ lines[k][1] = "T" /\ lines[k][2] >= 0
       /\ WellFormedStream(SubSeq(lines, 1, k - 1))
       /\ \A i \in cur..(h - 1) : ItemName(lines[i]) # snap_name_of(lines[k][3])

\* C27 as claimed: on a stream with a progress line that names a target
\* which is not in the header list at or after the current position, the
\* renderer never comes to an end: it neither returns nor panics.
C27_Claimed ==
    (\E k \in 1..Len(arg) : FirstLineOffTheList(arg, k)) =>
        pc \notin {"pb_returned", "pb_panicked"}

\* C27 as amended: on such a stream the renderer reads no line after that
\* one and never returns: either it has not yet taken line k, or the search
\* for the target has ended with a panic, on the index past the last header
\* item or on the assert! of the loop.
C27_SearchPanics ==
    \A k \in 1..Len(arg) :
        \/ pc = "pb_header"
        \/ pc = "pb_lines" /\ ret[1].k <= k
        \/ FirstLineOffTheList(arg, k) =>
              /\ pc = "pb_panicked"
              /\ ret[1].msg \in {"itemized_header_lines[cur_idx]: index out of bounds",
                                 "assert!(cur_idx < itemized_header_lines.len())"}

\* The search has panicked on a line that names the first item after a line
\* of the second, the third item being passed over.
C27_Witness ==
    /\ pc = "pb_panicked"
    /\ ret[1].msg = "assert!(cur_idx < itemized_header_lines.len())"
    /\ SizeLine(arg) = 4
    /\ Len(arg) = 6
    /\ FirstLineOffTheList(arg, 6)
    /\ snap_name_of(arg[5][3]) = 2
    /\ snap_name_of(arg[6][3]) = 1

\* ---------------------------------------------------------- verify_pv_rate
\* The length of the rate strings tried. A string of so few digits is below
\* 2^64: the overflow error of parse::<u64> is out of reach.
MaxRate == 3

\* Characters of a rate: two ASCII digits, two of the suffixes, a letter that
\* is no suffix, the two signs, and SUPERSCRIPT TWO, which char::is_numeric
\* takes for a number and parse::<u64> does not take for a digit.
RateChars == {"5", "0", "K", "M", "j", "+", "-", "U+00B2"}

RateStrings == SeqsUpTo(RateChars, MaxRate)

is_numeric(c) == c \in {"5", "0", "U+00B2"}

\* str::parse::<u64>: one leading '+' is taken off when something follows
\* it; what is left must be ASCII digits, one at least.
ParseU64(num) ==
    IF num = <<>> THEN FALSE
    ELSE IF num[1] \in {"+", "-"} /\ Len(num) = 1 THEN FALSE
    ELSE LET digits == IF num[1] = "+" THEN Tail(num) ELSE num
         IN \A k \in 1..Len(digits) : digits[k] \in {"5", "0"}

verify_pv_rate(rate) ==
    IF rate = <<>> THEN Err("()")
    ELSE LET last == rate[Len(rate)]
         IN IF ~is_numeric(last) /\ last \notin {"K", "G", "M", "T"}
            THEN Err("()")
            ELSE LET num == IF is_numeric(last) THEN rate
                            ELSE SubSeq(rate, 1, Len(rate) - 1)
                 IN IF ParseU64(num) THEN Ok ELSE Err("()")

InitRate ==
    /\ pc = "rate"
    /\ arg \in RateStrings
    /\ ret = None
    /\ OrchestratorIdle

VerifyPvRate ==
    /\ pc = "rate"
    /\ ret' = Some(verify_pv_rate(arg))
    /\ pc' = "rate_returned"
    /\ UNCHANGED <<arg, orchestrator_vars>>

NextRate == VerifyPvRate

SpecRate == InitRate /\ [][NextRate]_vars

\* ^[0-9]+[KMGT]?$ : one or more ASCII digits, then at most one suffix.
MatchesRate(r) ==
    \E n \in 1..Len(r) :
        /\ \A k \in 1..n : r[k] \in {"5", "0"}
        /\ \/ n = Len(r)
           \/ n = Len(r) - 1 /\ r[Len(r)] \in {"K", "M", "G", "T"}

\* C28 as claimed: verify_pv_rate returns Ok exactly for the strings that
\* match ^[0-9]+[KMGT]?$ ; the empty string, a bare suffix, a leading sign
\* and any other suffix letter are rejected.
C28_Claimed ==
    pc = "rate_returned" => (ret[1].ok <=> MatchesRate(arg))

====
